---------------------------- MODULE Spec2Model ----------------------------
(***************************************************************************)
(* A model of the hardware modules of the sl-micro-controllers firmware:   *)
(* the staged, non-blocking command handlers of the actuator modules       *)
(* (Valve, Break, Screen, Speaker, TTL) and the filters of the sensor      *)
(* modules (Lick, Analog, Torque, TTL input, Encoder).                     *)
(*                                                                         *)
(* One controller carries one module instance (kind, cfg, m).  The kernel  *)
(* sets it up, activates commands, calls RunActiveCommand once per cycle   *)
(* while a command is pending, delivers parameters and owns the output     *)
(* locks.  Time is counted in microseconds.                                *)
(***************************************************************************)
EXTENDS Integers, Sequences, FiniteSets, TLC

VARIABLES
    kind,         \* the class of the module instance
    cfg,          \* its template parameters
    m,            \* the module object: execution parameters, custom
                  \* parameters, static locals, the pins it drives, and the
                  \* output (messages, writes, delays) of the last call
    action_lock,  \* DynamicRuntimeParameters.action_lock
    ttl_lock,     \* DynamicRuntimeParameters.ttl_lock
    ready,        \* SetupModule has run
    ret,          \* what the last RunActiveCommand returned
    last,         \* the kernel step taken last
    pre,          \* the module object before the last call (m otherwise)
    input,        \* the hardware reading the last call consumed
    log,          \* the output since the active command was activated
    hist,         \* bookkeeping of the sensor claims (see HistInit)
    twin,         \* the same module with the opposite polarity, given the
                  \* same calls, locks, parameters and clock readings
    peer,         \* a second module of the controller, a TTL output, served
                  \* by the same kernel (followed under SpecPair only)
    turn          \* the module the kernel serves next: 1 is m, 2 is peer

vars == <<kind, cfg, m, action_lock, ttl_lock, ready, ret, last, pre, input, log, hist, twin,
          peer, turn>>

---------------------------------------------------------------------------
(* Bounds of the model.                                                    *)

\* Command codes the kernel may activate are 1..MaxCommand: every module
\* has at least one code in this range that it does not recognize.
MaxCommand == 6
\* calibration_count ranges over 0..MaxCount.
MaxCount == 1

---------------------------------------------------------------------------
(* Arduino levels.                                                         *)

HIGH == TRUE
LOW == FALSE

Abs(x) == IF x < 0 THEN -x ELSE x
Max2(a, b) == IF a >= b THEN a ELSE b
Min2(a, b) == IF a <= b THEN a ELSE b

\* An unsigned 32-bit value as two 16-bit limbs <<hi, lo>>: x modulo 2^32,
\* so that a negative x of the 32-bit integers stands for 2^32 + x, as in
\* static_cast<uint32_t>(x).
Limb == 65536
U32(x) == <<(x \div Limb) % Limb, x % Limb>>
\* a - b modulo 2^32, for a and b below 2^16 * 2^15.
U32Sub(a, b) ==
    IF a >= b THEN U32(a - b)
    ELSE LET d == b - a
             bh == (d + Limb - 1) \div Limb
         IN  <<Limb - bh, (bh * Limb - d) % Limb>>
U32Geq(x, y) == x[1] > y[1] \/ (x[1] = y[1] /\ x[2] >= y[2])

---------------------------------------------------------------------------
(* The Module base class and the hardware interface (module.h).            *)

\* SendData(event) and SendData(event, prototype, value).
SendData(mm, code) == [mm EXCEPT !.out = Append(@, <<"send", code>>)]
SendValue(mm, code, value) == [mm EXCEPT !.out = Append(@, <<"send", code, value>>)]

\* The lock DigitalWrite and AnalogWrite consult for a pin of the class.
Locked(ttl_pin) == IF ttl_pin THEN ttl_lock ELSE action_lock

\* DigitalWrite(pin, value, ttl_pin): true, and the pin is written, exactly
\* when the lock of the pin's class is free.
DigitalWriteOk(ttl_pin) == ~Locked(ttl_pin)
DigitalWrite(mm, pin, value, ttl_pin) ==
    IF Locked(ttl_pin)
    THEN [mm EXCEPT !.out = Append(@, <<"rejected", pin, value>>)]
    ELSE [mm EXCEPT !.pins[pin] = value, !.out = Append(@, <<"write", pin, value>>)]

\* digitalWriteFast(pin, value): writes the pin, whatever the locks say.
digitalWriteFast(mm, pin, value) ==
    [mm EXCEPT !.pins[pin] = value, !.out = Append(@, <<"write", pin, value>>)]

\* delayMicroseconds / delay: blocks in place.
delayMicroseconds(mm, d) == [mm EXCEPT !.out = Append(@, <<"delay", d>>)]

AdvanceCommandStage(mm) == [mm EXCEPT !.stage = @ + 1, !.delay_timer = 0]
CompleteCommand(mm) == [mm EXCEPT !.stage = 0, !.command = 0]
AbortCommand(mm) == [mm EXCEPT !.stage = 0, !.command = 0, !.halted = TRUE]

\* WaitForMicros(duration), the duration as a U32.
WaitForMicros(mm, duration) == U32Geq(U32(mm.delay_timer), duration)

\* The execution parameters and output of a freshly constructed module.
Base == [command |-> 0, stage |-> 0, delay_timer |-> 0, halted |-> FALSE, out |-> <<>>]

\* r @@ s for records.
Join(r, s) == [f \in (DOMAIN r) \cup (DOMAIN s) |-> IF f \in DOMAIN r THEN r[f] ELSE s[f]]

---------------------------------------------------------------------------
(* ValveModule (valve_module.h).                                           *)

Valve_kSendPulse == 1
Valve_kToggleOn == 2
Valve_kToggleOff == 3
Valve_kCalibrate == 4
Valve_kTonePulse == 5

\* kTonePin of a valve without a tone buzzer, and of the reward valve.
NoTonePin == 255
RewardTonePin == 9

Valve_DefaultPulseDuration == 35590
Valve_DefaultCalibrationDelay == 200000
Valve_DefaultCalibrationCount == 500
Valve_DefaultToneDuration == 300000

ValveConfigs ==
    [kNormallyClosed : BOOLEAN, kStartClosed : BOOLEAN, kTonePin : {NoTonePin, RewardTonePin}]

ValveDefaults ==
    [pulse_duration |-> Valve_DefaultPulseDuration,
     calibration_delay |-> Valve_DefaultCalibrationDelay,
     calibration_count |-> Valve_DefaultCalibrationCount,
     tone_duration |-> Valve_DefaultToneDuration]

\* The parameter records the PC may send.
ValveParameters ==
    [pulse_duration : {0, Valve_DefaultPulseDuration},
     calibration_delay : {Valve_DefaultCalibrationDelay},
     calibration_count : 0..MaxCount,
     tone_duration : {0, Valve_DefaultToneDuration}]

ValveNew == Join(Base, [p |-> ValveDefaults, pins |-> [x \in {"valve", "tone"} |-> LOW]])

\* kOpen ignoring the polarity of the valve.
Valve_kOpen_High(c) == HIGH

Valve_kOpen(c) == IF c.kNormallyClosed THEN HIGH ELSE LOW
Valve_kClose(c) == IF c.kNormallyClosed THEN LOW ELSE HIGH

ValveSetupModule(c, mm) ==
    LET a == SendData(digitalWriteFast(mm, "tone", LOW), "kToneOff")
        b == IF c.kStartClosed
             THEN SendData(digitalWriteFast(a, "valve", Valve_kClose(c)), "kClosed")
             ELSE SendData(digitalWriteFast(a, "valve", Valve_kOpen(c)), "kOpen")
    IN  [b EXCEPT !.p = ValveDefaults]

\* Pulse(), stage 1: opens the valve (and starts the tone).
ValvePulseOpen(c, mm) ==
    IF DigitalWriteOk(FALSE)
    THEN LET a == SendData(DigitalWrite(mm, "valve", Valve_kOpen(c), FALSE), "kOpen")
             b == IF c.kTonePin # NoTonePin
                  THEN SendData(digitalWriteFast(a, "tone", HIGH), "kToneOn")
                  ELSE a
         IN  AdvanceCommandStage(b)
    ELSE AbortCommand(SendData(DigitalWrite(mm, "valve", Valve_kOpen(c), FALSE), "kOutputLocked"))

\* Pulse() not waiting at stage 2.
ValvePulseWait_None(mm) == TRUE

\* Pulse(), stage 2: whether the pulse duration has passed.
ValvePulseWait(mm) == WaitForMicros(mm, U32(mm.p.pulse_duration))

\* Pulse(), stage 3: closes the valve.
ValvePulseClose(c, mm) ==
    IF DigitalWriteOk(FALSE)
    THEN LET a == SendData(DigitalWrite(mm, "valve", Valve_kClose(c), FALSE), "kClosed")
         IN  IF c.kTonePin = NoTonePin THEN CompleteCommand(a) ELSE AdvanceCommandStage(a)
    ELSE AbortCommand(SendData(DigitalWrite(mm, "valve", Valve_kClose(c), FALSE), "kOutputLocked"))

\* Pulse() not waiting at stage 4.
ValvePulseToneWait_None(mm) == TRUE

\* Pulse() with a stage-4 wait that never ends.
ValvePulseToneWait_Never(mm) == FALSE

\* The rest of the tone duration, 0 when the pulse is the longer.
ValveToneRemainder_Clamped(mm) ==
    IF mm.p.tone_duration >= mm.p.pulse_duration
    THEN U32(mm.p.tone_duration - mm.p.pulse_duration)
    ELSE U32(0)

\* Pulse(), stage 4: whether the rest of the tone duration has passed.
ValveToneRemainder(mm) == U32Sub(mm.p.tone_duration, mm.p.pulse_duration)
ValvePulseToneWait(mm) == WaitForMicros(mm, ValveToneRemainder(mm))

\* Pulse() starting over at stage 5 instead of completing.
ValvePulseToneOff_Restart(mm) ==
    [SendData(digitalWriteFast(mm, "tone", LOW), "kToneOff") EXCEPT !.stage = 1]

\* Pulse(), stage 5: silences the tone.
ValvePulseToneOff(mm) ==
    CompleteCommand(SendData(digitalWriteFast(mm, "tone", LOW), "kToneOff"))

ValvePulse(c, mm) ==
    IF mm.stage = 1 /\ ~DigitalWriteOk(FALSE) THEN ValvePulseOpen(c, mm)
    ELSE
    LET s1 == IF mm.stage = 1 THEN ValvePulseOpen(c, mm) ELSE mm IN
    IF s1.stage = 2 /\ ~ValvePulseWait(s1) THEN s1
    ELSE
    LET s2 == IF s1.stage = 2 THEN AdvanceCommandStage(s1) ELSE s1
        s3 == IF s2.stage = 3 THEN ValvePulseClose(c, s2) ELSE s2
    IN
    IF s3.stage = 4 /\ ~ValvePulseToneWait(s3) THEN s3
    ELSE
    LET s4 == IF s3.stage = 4 THEN AdvanceCommandStage(s3) ELSE s3
    IN  IF s4.stage = 5 THEN ValvePulseToneOff(s4) ELSE s4

ValveOpen(c, mm) ==
    IF DigitalWriteOk(FALSE)
    THEN CompleteCommand(SendData(DigitalWrite(mm, "valve", Valve_kOpen(c), FALSE), "kOpen"))
    ELSE AbortCommand(SendData(DigitalWrite(mm, "valve", Valve_kOpen(c), FALSE), "kOutputLocked"))

ValveClose(c, mm) ==
    IF DigitalWriteOk(FALSE)
    THEN CompleteCommand(SendData(DigitalWrite(mm, "valve", Valve_kClose(c), FALSE), "kClosed"))
    ELSE AbortCommand(SendData(DigitalWrite(mm, "valve", Valve_kClose(c), FALSE), "kOutputLocked"))

\* Calibrate(): what one iteration of the loop does when its writes succeed.
ValveCalibrateCycle(c, mm) ==
    <<<<"write", "valve", Valve_kOpen(c)>>, <<"delay", mm.p.pulse_duration>>,
      <<"write", "valve", Valve_kClose(c)>>, <<"delay", mm.p.calibration_delay>>>>

\* Calibrate(): the loop.  The locks do not change during the call, so either
\* the first write of the first iteration is rejected or every write succeeds.
ValveCalibrateLoop(c, mm) ==
    IF mm.p.calibration_count = 0 THEN mm
    ELSE IF ~DigitalWriteOk(FALSE)
    THEN AbortCommand(SendData(DigitalWrite(mm, "valve", Valve_kOpen(c), FALSE), "kOutputLocked"))
    ELSE [mm EXCEPT !.pins["valve"] = Valve_kClose(c),
                    !.out = @ \o [i \in 1..(4 * mm.p.calibration_count) |->
                                     ValveCalibrateCycle(c, mm)[((i - 1) % 4) + 1]]]

\* Calibrate() without the Calibrated event.
ValveCalibrate_Silent(c, mm) ==
    LET a == ValveCalibrateLoop(c, mm)
    IN  IF a.halted THEN a ELSE CompleteCommand(a)

ValveCalibrate(c, mm) ==
    LET a == ValveCalibrateLoop(c, mm)
    IN  IF a.halted THEN a ELSE CompleteCommand(SendData(a, "kCalibrated"))

\* Tone(): the guard that aborts the command.
ValveToneAborts(c) == c.kTonePin # NoTonePin

ValveTone(c, mm) ==
    IF ValveToneAborts(c) THEN AbortCommand(SendData(mm, "kTonePinNotSet"))
    ELSE IF mm.stage = 1 /\ ~DigitalWriteOk(FALSE)
    THEN AbortCommand(SendData(DigitalWrite(mm, "tone", HIGH, FALSE), "kOutputLocked"))
    ELSE
    LET s1 == IF mm.stage = 1
              THEN AdvanceCommandStage(SendData(DigitalWrite(mm, "tone", HIGH, FALSE), "kToneOn"))
              ELSE mm
    IN
    IF s1.stage = 2 /\ ~WaitForMicros(s1, U32(s1.p.tone_duration)) THEN s1
    ELSE
    LET s2 == IF s1.stage = 2 THEN AdvanceCommandStage(s1) ELSE s1
    IN  IF s2.stage = 3
        THEN IF DigitalWriteOk(FALSE)
             THEN CompleteCommand(SendData(DigitalWrite(s2, "tone", LOW, FALSE), "kToneOff"))
             ELSE AbortCommand(SendData(DigitalWrite(s2, "tone", LOW, FALSE), "kOutputLocked"))
        ELSE s2

ValveCommands == {Valve_kSendPulse, Valve_kToggleOn, Valve_kToggleOff, Valve_kCalibrate, Valve_kTonePulse}

ValveRunActiveCommand(c, mm) ==
    CASE mm.command = Valve_kSendPulse -> [ret |-> TRUE, m |-> ValvePulse(c, mm)]
      [] mm.command = Valve_kToggleOn -> [ret |-> TRUE, m |-> ValveOpen(c, mm)]
      [] mm.command = Valve_kToggleOff -> [ret |-> TRUE, m |-> ValveClose(c, mm)]
      [] mm.command = Valve_kCalibrate -> [ret |-> TRUE, m |-> ValveCalibrate(c, mm)]
      [] mm.command = Valve_kTonePulse -> [ret |-> TRUE, m |-> ValveTone(c, mm)]
      [] OTHER -> [ret |-> FALSE, m |-> mm]

---------------------------------------------------------------------------
(* SpeakerModule (speaker_module.h).                                       *)

Speaker_kSendPulse == 1
Speaker_kToggleOn == 2
Speaker_kToggleOff == 3

Speaker_DefaultPulseDuration == 100000

SpeakerConfigs == [kStartOff : BOOLEAN]
SpeakerDefaults == [pulse_duration |-> Speaker_DefaultPulseDuration]
SpeakerParameters == [pulse_duration : {0, Speaker_DefaultPulseDuration}]
SpeakerNew == Join(Base, [p |-> SpeakerDefaults, pins |-> [x \in {"pin"} |-> LOW]])

SpeakerSetupModule(c, mm) ==
    LET a == IF c.kStartOff
             THEN SendData(digitalWriteFast(mm, "pin", LOW), "kOff")
             ELSE SendData(digitalWriteFast(mm, "pin", HIGH), "kOn")
    IN  [a EXCEPT !.p = SpeakerDefaults]

\* Pulse() not advancing the stage after the stage-1 write.
SpeakerPulseOn_NoAdvance(mm) ==
    IF DigitalWriteOk(FALSE)
    THEN SendData(DigitalWrite(mm, "pin", HIGH, FALSE), "kOn")
    ELSE AbortCommand(SendData(DigitalWrite(mm, "pin", HIGH, FALSE), "kOutputLocked"))

\* Pulse(), stage 1.
SpeakerPulseOn(mm) ==
    IF DigitalWriteOk(FALSE)
    THEN AdvanceCommandStage(SendData(DigitalWrite(mm, "pin", HIGH, FALSE), "kOn"))
    ELSE AbortCommand(SendData(DigitalWrite(mm, "pin", HIGH, FALSE), "kOutputLocked"))

\* Pulse(), stage 2.
SpeakerPulseWait(mm) == WaitForMicros(mm, U32(mm.p.pulse_duration))

\* Pulse() silencing the speaker without reporting it.
SpeakerPulseOff_Silent(mm) ==
    IF DigitalWriteOk(FALSE)
    THEN CompleteCommand(DigitalWrite(mm, "pin", LOW, FALSE))
    ELSE AbortCommand(SendData(DigitalWrite(mm, "pin", LOW, FALSE), "kOutputLocked"))

\* Pulse(), stage 3.
SpeakerPulseOff(mm) ==
    IF DigitalWriteOk(FALSE)
    THEN CompleteCommand(SendData(DigitalWrite(mm, "pin", LOW, FALSE), "kOff"))
    ELSE AbortCommand(SendData(DigitalWrite(mm, "pin", LOW, FALSE), "kOutputLocked"))

SpeakerPulse(mm) ==
    IF mm.stage = 1 /\ ~DigitalWriteOk(FALSE) THEN SpeakerPulseOn(mm)
    ELSE
    LET s1 == IF mm.stage = 1 THEN SpeakerPulseOn(mm) ELSE mm IN
    IF s1.stage = 2 /\ ~SpeakerPulseWait(s1) THEN s1
    ELSE
    LET s2 == IF s1.stage = 2 THEN AdvanceCommandStage(s1) ELSE s1
    IN  IF s2.stage = 3 THEN SpeakerPulseOff(s2) ELSE s2

SpeakerOpen(mm) ==
    IF DigitalWriteOk(FALSE)
    THEN CompleteCommand(SendData(DigitalWrite(mm, "pin", HIGH, FALSE), "kOn"))
    ELSE AbortCommand(SendData(DigitalWrite(mm, "pin", HIGH, FALSE), "kOutputLocked"))

SpeakerClose(mm) ==
    IF DigitalWriteOk(FALSE)
    THEN CompleteCommand(SendData(DigitalWrite(mm, "pin", LOW, FALSE), "kOff"))
    ELSE AbortCommand(SendData(DigitalWrite(mm, "pin", LOW, FALSE), "kOutputLocked"))

SpeakerCommands == {Speaker_kSendPulse, Speaker_kToggleOn, Speaker_kToggleOff}

SpeakerRunActiveCommand(mm) ==
    CASE mm.command = Speaker_kSendPulse -> [ret |-> TRUE, m |-> SpeakerPulse(mm)]
      [] mm.command = Speaker_kToggleOn -> [ret |-> TRUE, m |-> SpeakerOpen(mm)]
      [] mm.command = Speaker_kToggleOff -> [ret |-> TRUE, m |-> SpeakerClose(mm)]
      [] OTHER -> [ret |-> FALSE, m |-> mm]

---------------------------------------------------------------------------
(* ScreenModule (screen_module.h).                                         *)

Screen_kToggle == 1

Screen_DefaultPulseDuration == 1000000

ScreenConfigs == [kNormallyClosed : BOOLEAN]
ScreenDefaults == [pulse_duration |-> Screen_DefaultPulseDuration]
ScreenParameters == [pulse_duration : {0, Screen_DefaultPulseDuration}]
ScreenNew ==
    Join(Base, [p |-> ScreenDefaults, pins |-> [x \in {"left", "center", "right"} |-> LOW]])

Screen_kOn(c) == IF c.kNormallyClosed THEN HIGH ELSE LOW
Screen_kOff(c) == IF c.kNormallyClosed THEN LOW ELSE HIGH

ScreenSetupModule(c, mm) ==
    LET a == digitalWriteFast(mm, "left", Screen_kOff(c))
        b == digitalWriteFast(a, "center", Screen_kOff(c))
        d == digitalWriteFast(b, "right", Screen_kOff(c))
    IN  [SendData(d, "kOff") EXCEPT !.p = ScreenDefaults]

\* The writes of a stage of Toggle() without the one of the right screen.
ScreenWriteAll_NotRight(mm, level) ==
    LET st1 == DigitalWriteOk(FALSE)
        a == DigitalWrite(mm, "left", level, FALSE)
        b == IF st1 THEN DigitalWrite(a, "center", level, FALSE) ELSE a
    IN  <<st1, b>>

\* The three chained writes of a stage of Toggle(): <<state, module>>.
ScreenWriteAll(mm, level) ==
    LET st1 == DigitalWriteOk(FALSE)
        a == DigitalWrite(mm, "left", level, FALSE)
        st2 == IF st1 THEN DigitalWriteOk(FALSE) ELSE st1
        b == IF st1 THEN DigitalWrite(a, "center", level, FALSE) ELSE a
        st3 == IF st2 THEN DigitalWriteOk(FALSE) ELSE st2
        d == IF st2 THEN DigitalWrite(b, "right", level, FALSE) ELSE b
    IN  <<st3, d>>

\* Toggle(), stage 1.
ScreenToggleOn(c, mm) ==
    LET w == ScreenWriteAll(mm, Screen_kOn(c))
    IN  IF w[1] THEN AdvanceCommandStage(SendData(w[2], "kOn"))
        ELSE AbortCommand(SendData(w[2], "kOutputLocked"))

\* Toggle(), stage 2.
ScreenToggleWait(mm) == WaitForMicros(mm, U32(mm.p.pulse_duration))

\* Toggle(), stage 3.
ScreenToggleOff(c, mm) ==
    LET w == ScreenWriteAll(mm, Screen_kOff(c))
    IN  IF w[1] THEN CompleteCommand(SendData(w[2], "kOff"))
        ELSE AbortCommand(SendData(w[2], "kOutputLocked"))

\* Toggle() reporting the screens on at every poll of the stage-2 wait.
ScreenToggle_Repeat(c, mm) ==
    IF mm.stage = 1 /\ ~ScreenWriteAll(mm, Screen_kOn(c))[1] THEN ScreenToggleOn(c, mm)
    ELSE
    LET s1 == IF mm.stage = 1 THEN ScreenToggleOn(c, mm) ELSE mm IN
    IF s1.stage = 2 /\ ~ScreenToggleWait(s1) THEN SendData(s1, "kOn")
    ELSE
    LET s2 == IF s1.stage = 2 THEN AdvanceCommandStage(s1) ELSE s1
    IN  IF s2.stage = 3 THEN ScreenToggleOff(c, s2) ELSE s2

ScreenToggle(c, mm) ==
    IF mm.stage = 1 /\ ~ScreenWriteAll(mm, Screen_kOn(c))[1] THEN ScreenToggleOn(c, mm)
    ELSE
    LET s1 == IF mm.stage = 1 THEN ScreenToggleOn(c, mm) ELSE mm IN
    IF s1.stage = 2 /\ ~ScreenToggleWait(s1) THEN s1
    ELSE
    LET s2 == IF s1.stage = 2 THEN AdvanceCommandStage(s1) ELSE s1
    IN  IF s2.stage = 3 THEN ScreenToggleOff(c, s2) ELSE s2

ScreenCommands == {Screen_kToggle}

ScreenRunActiveCommand(c, mm) ==
    CASE mm.command = Screen_kToggle -> [ret |-> TRUE, m |-> ScreenToggle(c, mm)]
      [] OTHER -> [ret |-> FALSE, m |-> mm]

---------------------------------------------------------------------------
(* BreakModule (break_module.h).  The pin holds a PWM duty cycle: a        *)
(* digital HIGH is the duty cycle 255, a digital LOW the duty cycle 0.     *)

Break_kToggleOn == 1
Break_kToggleOff == 2
Break_kSetBreakingPower == 3

Break_DefaultBreakingStrength == 128
MaxDuty == 255

BreakConfigs == [kNormallyEngaged : BOOLEAN, kStartEngaged : BOOLEAN]
BreakDefaults == [breaking_strength |-> Break_DefaultBreakingStrength]
BreakParameters == [breaking_strength : {0, 1, Break_DefaultBreakingStrength, MaxDuty}]
BreakNew == Join(Base, [p |-> BreakDefaults, pins |-> [x \in {"pin"} |-> 0]])

Duty(level) == IF level = HIGH THEN MaxDuty ELSE 0

Break_kEngage(c) == IF c.kNormallyEngaged THEN HIGH ELSE LOW
Break_kDisengage(c) == IF c.kNormallyEngaged THEN LOW ELSE HIGH

\* The level SetupModule writes.
BreakSetupLevel(c) ==
    IF c.kStartEngaged
    THEN (IF c.kNormallyEngaged THEN LOW ELSE HIGH)
    ELSE (IF c.kNormallyEngaged THEN HIGH ELSE LOW)

BreakSetupModule(c, mm) ==
    [digitalWriteFast(mm, "pin", Duty(BreakSetupLevel(c))) EXCEPT !.p = BreakDefaults]

\* EnableBreak() advancing the stage instead of completing the command.
EnableBreak_Pending(c, mm) ==
    IF DigitalWriteOk(FALSE)
    THEN AdvanceCommandStage(DigitalWrite(mm, "pin", Duty(Break_kEngage(c)), FALSE))
    ELSE AbortCommand(SendData(DigitalWrite(mm, "pin", Duty(Break_kEngage(c)), FALSE), "kOutputLocked"))

EnableBreak(c, mm) ==
    IF DigitalWriteOk(FALSE)
    THEN CompleteCommand(DigitalWrite(mm, "pin", Duty(Break_kEngage(c)), FALSE))
    ELSE AbortCommand(SendData(DigitalWrite(mm, "pin", Duty(Break_kEngage(c)), FALSE), "kOutputLocked"))

DisableBreak(c, mm) ==
    IF DigitalWriteOk(FALSE)
    THEN CompleteCommand(DigitalWrite(mm, "pin", Duty(Break_kDisengage(c)), FALSE))
    ELSE AbortCommand(SendData(DigitalWrite(mm, "pin", Duty(Break_kDisengage(c)), FALSE), "kOutputLocked"))

\* SetBreakingPower() not inverting the value of a normally engaged brake.
BreakingPowerValue_NoInvert(c, mm) == mm.p.breaking_strength

\* The duty cycle SetBreakingPower writes, a uint8_t.
BreakingPowerValue(c, mm) ==
    IF c.kNormallyEngaged THEN (MaxDuty - mm.p.breaking_strength) % 256
    ELSE mm.p.breaking_strength

\* AnalogWrite(pin, value, ttl_pin) consults the same lock as DigitalWrite.
SetBreakingPower(c, mm) ==
    IF DigitalWriteOk(FALSE)
    THEN CompleteCommand(DigitalWrite(mm, "pin", BreakingPowerValue(c, mm), FALSE))
    ELSE AbortCommand(SendData(DigitalWrite(mm, "pin", BreakingPowerValue(c, mm), FALSE), "kOutputLocked"))

BreakCommands == {Break_kToggleOn, Break_kToggleOff, Break_kSetBreakingPower}

BreakRunActiveCommand(c, mm) ==
    CASE mm.command = Break_kToggleOn -> [ret |-> TRUE, m |-> EnableBreak(c, mm)]
      [] mm.command = Break_kToggleOff -> [ret |-> TRUE, m |-> DisableBreak(c, mm)]
      [] mm.command = Break_kSetBreakingPower -> [ret |-> TRUE, m |-> SetBreakingPower(c, mm)]
      [] OTHER -> [ret |-> FALSE, m |-> mm]

---------------------------------------------------------------------------
(* TTLModule (ttl_module.h).                                               *)

TTL_kSendPulse == 1
TTL_kToggleOn == 2
TTL_kToggleOff == 3
TTL_kCheckState == 4

TTL_DefaultPulseDuration == 10000

TTLConfigs == [kOutput : BOOLEAN, kStartOn : BOOLEAN]
TTLDefaults == [pulse_duration |-> TTL_DefaultPulseDuration, average_pool_size |-> 0]
TTLParameters == [pulse_duration : {0, TTL_DefaultPulseDuration}, average_pool_size : {0}]
\* previous_input_status is the static local of CheckState().
TTLNew ==
    Join(Base, [p |-> TTLDefaults, pins |-> [x \in {"pin"} |-> LOW],
                previous_input_status |-> FALSE])

TTLSetupModule(c, mm) ==
    LET a == IF c.kOutput
             THEN (IF ~c.kStartOn THEN digitalWriteFast(mm, "pin", LOW)
                   ELSE digitalWriteFast(mm, "pin", HIGH))
             ELSE mm
    IN  [a EXCEPT !.p = TTLDefaults]

TTLInvalidPinMode(mm) == AbortCommand(SendData(mm, "kInvalidPinMode"))

\* SendPulse(), stage 1.
TTLPulseOn(mm) ==
    IF DigitalWriteOk(TRUE)
    THEN AdvanceCommandStage(DigitalWrite(mm, "pin", HIGH, TRUE))
    ELSE AbortCommand(SendData(DigitalWrite(mm, "pin", HIGH, TRUE), "kOutputLocked"))

\* SendPulse() with a stage-2 wait that never ends.
TTLPulseWait_Never(mm) == FALSE

\* SendPulse(), stage 2.
TTLPulseWait(mm) == WaitForMicros(mm, U32(mm.p.pulse_duration))

\* SendPulse(), stage 3.
TTLPulseOff(mm) ==
    IF DigitalWriteOk(TRUE)
    THEN CompleteCommand(DigitalWrite(mm, "pin", LOW, TRUE))
    ELSE AbortCommand(SendData(DigitalWrite(mm, "pin", LOW, TRUE), "kOutputLocked"))

TTLSendPulse(c, mm) ==
    IF ~c.kOutput THEN TTLInvalidPinMode(mm)
    ELSE IF mm.stage = 1 /\ ~DigitalWriteOk(TRUE) THEN TTLPulseOn(mm)
    ELSE
    LET s1 == IF mm.stage = 1 THEN TTLPulseOn(mm) ELSE mm IN
    IF s1.stage = 2 /\ ~TTLPulseWait(s1) THEN s1
    ELSE
    LET s2 == IF s1.stage = 2 THEN AdvanceCommandStage(s1) ELSE s1
    IN  IF s2.stage = 3 THEN TTLPulseOff(s2) ELSE s2

\* ToggleOn() without the check of the pin's role.
TTLToggleOn_NoRole(c, mm) ==
    IF DigitalWriteOk(TRUE)
    THEN CompleteCommand(DigitalWrite(mm, "pin", HIGH, TRUE))
    ELSE AbortCommand(SendData(DigitalWrite(mm, "pin", HIGH, TRUE), "kOutputLocked"))

TTLToggleOn(c, mm) ==
    IF ~c.kOutput THEN TTLInvalidPinMode(mm)
    ELSE IF DigitalWriteOk(TRUE)
    THEN CompleteCommand(DigitalWrite(mm, "pin", HIGH, TRUE))
    ELSE AbortCommand(SendData(DigitalWrite(mm, "pin", HIGH, TRUE), "kOutputLocked"))

TTLToggleOff(c, mm) ==
    IF ~c.kOutput THEN TTLInvalidPinMode(mm)
    ELSE IF DigitalWriteOk(TRUE)
    THEN CompleteCommand(DigitalWrite(mm, "pin", LOW, TRUE))
    ELSE AbortCommand(SendData(DigitalWrite(mm, "pin", LOW, TRUE), "kOutputLocked"))

\* CheckState() not storing the state it reported.
TTLCheckState_NoStore(c, mm, current_state) ==
    IF c.kOutput THEN TTLInvalidPinMode(mm)
    ELSE LET r == [mm EXCEPT !.out = Append(@, <<"read", "pin">>)]
             a == IF r.previous_input_status # current_state
                  THEN SendData(r, IF current_state THEN "kInputOn" ELSE "kInputOff")
                  ELSE r
         IN  CompleteCommand(a)

\* CheckState(): current_state is what DigitalRead returned.
TTLCheckState(c, mm, current_state) ==
    IF c.kOutput THEN TTLInvalidPinMode(mm)
    ELSE LET r == [mm EXCEPT !.out = Append(@, <<"read", "pin">>)]
             a == IF r.previous_input_status # current_state
                  THEN SendData([r EXCEPT !.previous_input_status = current_state],
                                IF current_state THEN "kInputOn" ELSE "kInputOff")
                  ELSE r
         IN  CompleteCommand(a)

TTLCommands == {TTL_kSendPulse, TTL_kToggleOn, TTL_kToggleOff, TTL_kCheckState}

\* RunActiveCommand() without the case of kCheckState.
TTLRunActiveCommand_NoCheck(c, mm, in) ==
    CASE mm.command = TTL_kSendPulse -> [ret |-> TRUE, m |-> TTLSendPulse(c, mm)]
      [] mm.command = TTL_kToggleOn -> [ret |-> TRUE, m |-> TTLToggleOn(c, mm)]
      [] mm.command = TTL_kToggleOff -> [ret |-> TRUE, m |-> TTLToggleOff(c, mm)]
      [] OTHER -> [ret |-> FALSE, m |-> mm]

TTLRunActiveCommand(c, mm, in) ==
    CASE mm.command = TTL_kSendPulse -> [ret |-> TRUE, m |-> TTLSendPulse(c, mm)]
      [] mm.command = TTL_kToggleOn -> [ret |-> TRUE, m |-> TTLToggleOn(c, mm)]
      [] mm.command = TTL_kToggleOff -> [ret |-> TRUE, m |-> TTLToggleOff(c, mm)]
      [] mm.command = TTL_kCheckState -> [ret |-> TRUE, m |-> TTLCheckState(c, mm, in)]
      [] OTHER -> [ret |-> FALSE, m |-> mm]

---------------------------------------------------------------------------
(* LickModule (lick_module.h).                                             *)

Lick_kCheckState == 1

Lick_DefaultSignalThreshold == 200
Lick_DefaultDeltaThreshold == 100

\* The averaged ADC readouts and the parameters the model draws from.
LickSamples == {0, 50, 60, 180, 200, 250, 400}
LickDefaults ==
    [signal_threshold |-> Lick_DefaultSignalThreshold,
     delta_threshold |-> Lick_DefaultDeltaThreshold,
     average_pool_size |-> 0]
LickParameters ==
    [signal_threshold : {Lick_DefaultSignalThreshold, 300},
     delta_threshold : {0, Lick_DefaultDeltaThreshold, 250},
     average_pool_size : {0}]
\* previous_readout and previous_zero are the static locals of CheckState().
LickNew ==
    Join(Base, [p |-> LickDefaults, pins |-> <<>>,
                previous_readout |-> 0, previous_zero |-> TRUE])

\* SetupModule() not notifying the PC about the initial state.
LickSetupModule_Silent(mm) == [mm EXCEPT !.p = LickDefaults]

LickSetupModule(mm) == SendValue([mm EXCEPT !.p = LickDefaults], "kChanged", 0)

\* CheckState() never setting previous_zero after a zero message.
LickCheckState_NoFlag(mm, signal) ==
    LET delta == Abs(signal - mm.previous_readout) % 65536
    IN  IF delta <= mm.p.delta_threshold THEN CompleteCommand(mm)
        ELSE LET a == [mm EXCEPT !.previous_readout = signal]
                 b == IF signal >= a.p.signal_threshold
                      THEN [SendValue(a, "kChanged", signal) EXCEPT !.previous_zero = FALSE]
                      ELSE IF ~a.previous_zero THEN SendValue(a, "kChanged", 0) ELSE a
             IN  CompleteCommand(b)

\* CheckState() reporting only a signal above signal_threshold.
LickCheckState_Strict(mm, signal) ==
    LET delta == Abs(signal - mm.previous_readout) % 65536
    IN  IF delta <= mm.p.delta_threshold THEN CompleteCommand(mm)
        ELSE LET a == [mm EXCEPT !.previous_readout = signal]
                 b == IF signal > a.p.signal_threshold
                      THEN [SendValue(a, "kChanged", signal) EXCEPT !.previous_zero = FALSE]
                      ELSE IF ~a.previous_zero
                           THEN [SendValue(a, "kChanged", 0) EXCEPT !.previous_zero = TRUE]
                           ELSE a
             IN  CompleteCommand(b)

\* CheckState(): signal is what AnalogRead returned.
LickCheckState(mm, signal) ==
    LET delta == Abs(signal - mm.previous_readout) % 65536
    IN  IF delta <= mm.p.delta_threshold THEN CompleteCommand(mm)
        ELSE LET a == [mm EXCEPT !.previous_readout = signal]
                 b == IF signal >= a.p.signal_threshold
                      THEN [SendValue(a, "kChanged", signal) EXCEPT !.previous_zero = FALSE]
                      ELSE IF ~a.previous_zero
                           THEN [SendValue(a, "kChanged", 0) EXCEPT !.previous_zero = TRUE]
                           ELSE a
             IN  CompleteCommand(b)

LickCommands == {Lick_kCheckState}

LickRunActiveCommand(mm, in) ==
    CASE mm.command = Lick_kCheckState -> [ret |-> TRUE, m |-> LickCheckState(mm, in)]
      [] OTHER -> [ret |-> FALSE, m |-> mm]

---------------------------------------------------------------------------
(* AnalogModule (analog_module.h).                                         *)

Analog_kCheckState == 1

Analog_DefaultSignalThreshold == 30

AnalogSamples == {0, 10, 29, 30, 31, 50}
AnalogDefaults == [signal_threshold |-> Analog_DefaultSignalThreshold, average_pool_size |-> 0]
AnalogParameters == [signal_threshold : {0, 10, Analog_DefaultSignalThreshold}, average_pool_size : {0}]
AnalogNew == Join(Base, [p |-> AnalogDefaults, pins |-> <<>>])

AnalogSetupModule(mm) == SendValue([mm EXCEPT !.p = AnalogDefaults], "kNonZero", 0)

\* CheckState() reporting a signal equal to the threshold.
AnalogCheckState_AtThreshold(mm, signal) ==
    IF signal < mm.p.signal_threshold THEN CompleteCommand(mm)
    ELSE CompleteCommand(SendValue(mm, "kNonZero", signal))

\* CheckState() returning on a signal below the threshold without completing.
AnalogCheckState_Pending(mm, signal) ==
    IF signal <= mm.p.signal_threshold THEN mm
    ELSE CompleteCommand(SendValue(mm, "kNonZero", signal))

AnalogCheckState(mm, signal) ==
    IF signal <= mm.p.signal_threshold THEN CompleteCommand(mm)
    ELSE LET a == IF signal >= mm.p.signal_threshold
                  THEN SendValue(mm, "kNonZero", signal)
                  ELSE mm
         IN  CompleteCommand(a)

AnalogCommands == {Analog_kCheckState}

AnalogRunActiveCommand(mm, in) ==
    CASE mm.command = Analog_kCheckState -> [ret |-> TRUE, m |-> AnalogCheckState(mm, in)]
      [] OTHER -> [ret |-> FALSE, m |-> mm]

---------------------------------------------------------------------------
(* TorqueModule (torque_module.h).                                         *)

Torque_kCheckState == 1

Torque_DefaultSignalThreshold == 100
Torque_DefaultDeltaThreshold == 70
Torque_DefaultAveragePoolSize == 5

\* kBaseline of the torque sensor of main.cpp.
SensorBaseline == 2048

\* kBaseline of an amplifier zeroed at 1.6 V, as the class expects it, read
\* with 12 bits against 3.3 V.
AmplifierZero == (16 * 4095) \div 33

TorqueConfigs == [kBaseline : {SensorBaseline, AmplifierZero}, kInvertDirection : BOOLEAN]
TorqueSamples == {0, 1900, 2000, 2048, 2100, 2200, 4095}
TorqueDefaults ==
    [report_CCW |-> TRUE, report_CW |-> TRUE,
     signal_threshold |-> Torque_DefaultSignalThreshold,
     delta_threshold |-> Torque_DefaultDeltaThreshold,
     average_pool_size |-> Torque_DefaultAveragePoolSize]
TorqueParameters ==
    [report_CCW : BOOLEAN, report_CW : BOOLEAN,
     signal_threshold : {0, Torque_DefaultSignalThreshold},
     delta_threshold : {0, Torque_DefaultDeltaThreshold},
     average_pool_size : {Torque_DefaultAveragePoolSize}]
\* previous_readout and previous_zero are the static locals of CheckState().
TorqueNew(c) ==
    Join(Base, [p |-> TorqueDefaults, pins |-> <<>>,
                previous_readout |-> c.kBaseline, previous_zero |-> FALSE])

TorqueSetupModule(mm) == SendValue([mm EXCEPT !.p = TorqueDefaults], "kCCWTorque", 0)

\* The direction flag and the rescaled signal: <<cw, signal>>.
TorqueRescale(c, signal) ==
    IF signal > c.kBaseline THEN <<(FALSE # c.kInvertDirection), signal - c.kBaseline>>
    ELSE IF signal < c.kBaseline THEN <<(TRUE # c.kInvertDirection), c.kBaseline - signal>>
    ELSE <<FALSE, 0>>

TorqueCheckState(c, mm, signal) ==
    LET delta == Abs(signal - mm.previous_readout) % 65536
    IN  IF delta <= mm.p.delta_threshold THEN CompleteCommand(mm)
        ELSE LET a == [mm EXCEPT !.previous_readout = signal]
                 cw == TorqueRescale(c, signal)[1]
                 sig == TorqueRescale(c, signal)[2]
                 b == IF sig < a.p.signal_threshold
                      THEN IF ~a.previous_zero
                           THEN [SendValue(a, "kCCWTorque", 0) EXCEPT !.previous_zero = TRUE]
                           ELSE a
                      ELSE LET d == IF ~cw /\ a.p.report_CCW THEN SendValue(a, "kCCWTorque", sig)
                                    ELSE IF cw /\ a.p.report_CW THEN SendValue(a, "kCWTorque", sig)
                                    ELSE a
                           IN  [d EXCEPT !.previous_zero = FALSE]
             IN  CompleteCommand(b)

TorqueCommands == {Torque_kCheckState}

TorqueRunActiveCommand(c, mm, in) ==
    CASE mm.command = Torque_kCheckState -> [ret |-> TRUE, m |-> TorqueCheckState(c, mm, in)]
      [] OTHER -> [ret |-> FALSE, m |-> mm]

---------------------------------------------------------------------------
(* EncoderModule (encoder_module.h).                                       *)

Encoder_kCheckState == 1
Encoder_kReset == 2
Encoder_kGetPPR == 3

Encoder_DefaultDeltaThreshold == 15

\* The pulse counter read by a check ranges over -MaxMotion..MaxMotion.
MaxMotion == 6
\* The number of rotations GetPPR measures, and its delay in milliseconds.
PPRRotations == 10
PPRDelay == 100

EncoderConfigs == [kInvertDirection : BOOLEAN]
EncoderDefaults ==
    [report_CCW |-> TRUE, report_CW |-> TRUE, delta_threshold |-> Encoder_DefaultDeltaThreshold]
EncoderParameters ==
    [report_CCW : BOOLEAN, report_CW : BOOLEAN,
     delta_threshold : {0, 2, Encoder_DefaultDeltaThreshold}]
EncoderNew == Join(Base, [p |-> EncoderDefaults, pins |-> <<>>, overflow |-> 0])

kMultiplier(c) == IF c.kInvertDirection THEN -1 ELSE 1

EncoderSetupModule(mm) ==
    SendValue([mm EXCEPT !.overflow = 0, !.p = EncoderDefaults], "kRotatedCW", 0)

\* ReadEncoder() capping the motion of a reported direction as well.
EncoderAccumulate_Capped(mm, new_motion) ==
    IF new_motion < 0
    THEN Max2(mm.overflow + new_motion, -mm.p.delta_threshold)
    ELSE Min2(mm.overflow + new_motion, mm.p.delta_threshold)

\* ReadEncoder() adding the motion of either direction without a cap.
EncoderAccumulate_Unclamped(mm, new_motion) == mm.overflow + new_motion

\* ReadEncoder(): _overflow after the new motion is added.
EncoderAccumulate(mm, new_motion) ==
    LET positive_amortization == mm.p.delta_threshold
        negative_amortization == -positive_amortization
    IN  IF (new_motion < 0 /\ mm.p.report_CW) \/ (new_motion > 0 /\ mm.p.report_CCW)
        THEN mm.overflow + new_motion
        ELSE IF new_motion < 0
        THEN Max2(mm.overflow + new_motion, negative_amortization)
        ELSE Min2(mm.overflow + new_motion, positive_amortization)

\* ReadEncoder() reporting a motion equal to the threshold as well.
EncoderReport_AtThreshold(mm) ==
    LET delta == Abs(mm.overflow)
    IN  IF mm.overflow < 0 /\ delta >= mm.p.delta_threshold
        THEN [SendValue(mm, "kRotatedCW", delta) EXCEPT !.overflow = 0]
        ELSE IF mm.overflow > 0 /\ delta >= mm.p.delta_threshold
        THEN [SendValue(mm, "kRotatedCCW", delta) EXCEPT !.overflow = 0]
        ELSE mm

\* ReadEncoder(): the report of the accumulated motion.
EncoderReport(mm) ==
    LET delta == Abs(mm.overflow)
    IN  IF mm.overflow < 0 /\ delta > mm.p.delta_threshold
        THEN [SendValue(mm, "kRotatedCW", delta) EXCEPT !.overflow = 0]
        ELSE IF mm.overflow > 0 /\ delta > mm.p.delta_threshold
        THEN [SendValue(mm, "kRotatedCCW", delta) EXCEPT !.overflow = 0]
        ELSE mm

\* ReadEncoder(): count is what _encoder.readAndReset() returned.
ReadEncoder(c, mm, count) ==
    LET new_motion == count * kMultiplier(c)
    IN  IF new_motion = 0 THEN CompleteCommand(mm)
        ELSE CompleteCommand(EncoderReport([mm EXCEPT !.overflow = EncoderAccumulate(mm, new_motion)]))

ResetEncoder(mm) == CompleteCommand(mm)

RECURSIVE SumAbs(_)
SumAbs(q) == IF q = <<>> THEN 0 ELSE Abs(Head(q)) + SumAbs(Tail(q))

\* What the hardware does during a GetPPR() call: counts[i] is what
\* readAndReset() returns after rotation i; edges is how many times the
\* index pin is found HIGH by a wait of the call before it stays LOW for
\* good (PPRWaits: it never fails to); held are the rotations whose wait,
\* after the delay, finds the pin still HIGH from the pulse that ended the
\* wait before, and not from a new pulse.
PPRWaits == PPRRotations + 1

\* GetPPR(): what the call does, in order, if every wait ends.  A wait is
\* 'while (!digitalReadFast(kPinX))': it ends as soon as the pin reads HIGH.
GetPPRSteps(in) ==
    <<<<"wait", "kPinX">>, <<"reset", 0>>>> \o
    [i \in 1..(3 * PPRRotations) |->
        CASE i % 3 = 1 -> <<"delay", PPRDelay * 1000>>
          [] i % 3 = 2 -> <<"wait", "kPinX",
                            IF ((i + 1) \div 3) \in in.held THEN "level" ELSE "edge">>
          [] OTHER -> <<"readAndReset", in.counts[i \div 3]>>]

\* The steps up to the wait that never ends, when the pin stays LOW.
GetPPRStalled(in) ==
    SubSeq(GetPPRSteps(in), 1, IF in.edges = 0 THEN 1 ELSE 3 * in.edges + 1)

\* The call of a module has not returned: it is in a wait on a pin.
Blocked(mm) == mm.out # <<>> /\ mm.out[Len(mm.out)][1] = "wait"

\* GetPPR() averaging without the rounding term.
GetPPR_Floor(mm, in) ==
    LET pprs == SumAbs(in.counts)
        average_ppr == (pprs \div PPRRotations) % 65536
    IN  CompleteCommand(SendValue([mm EXCEPT !.out = @ \o GetPPRSteps(in)],
                                  "kPPR", average_ppr))

GetPPR(mm, in) ==
    LET pprs == SumAbs(in.counts)
        average_ppr == ((pprs + PPRRotations \div 2) \div PPRRotations) % 65536
    IN  IF in.edges < PPRWaits
        THEN [mm EXCEPT !.out = @ \o GetPPRStalled(in)]
        ELSE CompleteCommand(SendValue([mm EXCEPT !.out = @ \o GetPPRSteps(in)],
                                       "kPPR", average_ppr))

\* The PPR runs the model draws from: runs in which every index pulse
\* arrives, runs in which the pulses stop, and runs in which a wait finds
\* the pin still HIGH.
PPRCounts ==
    {[i \in 1..PPRRotations |-> IF i <= k THEN a ELSE b] :
        a \in {-8192, 70000}, b \in {0, 70001}, k \in {0, 5, PPRRotations}}
PPRSteady == [i \in 1..PPRRotations |-> -8192]
PPRReadings ==
    [counts : PPRCounts, edges : {PPRWaits}, held : {{}}]
    \cup [counts : {PPRSteady}, edges : {0, 1, 6}, held : {{}}]
    \cup [counts : {PPRSteady}, edges : {PPRWaits}, held : {{3}, 1..PPRRotations}]

EncoderCommands == {Encoder_kCheckState, Encoder_kReset, Encoder_kGetPPR}

EncoderRunActiveCommand(c, mm, in) ==
    CASE mm.command = Encoder_kCheckState -> [ret |-> TRUE, m |-> ReadEncoder(c, mm, in)]
      [] mm.command = Encoder_kReset -> [ret |-> TRUE, m |-> ResetEncoder(mm)]
      [] mm.command = Encoder_kGetPPR -> [ret |-> TRUE, m |-> GetPPR(mm, in)]
      [] OTHER -> [ret |-> FALSE, m |-> mm]

---------------------------------------------------------------------------
(* The controller: one module instance and the kernel's calls.             *)

ActuatorKinds == {"valve", "speaker", "screen", "break", "ttl"}
SensorKinds == {"lick", "analog", "torque", "encoder"}
Kinds == ActuatorKinds \cup SensorKinds

Configs(k) ==
    CASE k = "valve" -> ValveConfigs
      [] k = "speaker" -> SpeakerConfigs
      [] k = "screen" -> ScreenConfigs
      [] k = "break" -> BreakConfigs
      [] k = "ttl" -> TTLConfigs
      [] k = "torque" -> TorqueConfigs
      [] k = "encoder" -> EncoderConfigs
      [] OTHER -> {<<>>}

New(k, c) ==
    CASE k = "valve" -> ValveNew
      [] k = "speaker" -> SpeakerNew
      [] k = "screen" -> ScreenNew
      [] k = "break" -> BreakNew
      [] k = "ttl" -> TTLNew
      [] k = "lick" -> LickNew
      [] k = "analog" -> AnalogNew
      [] k = "torque" -> TorqueNew(c)
      [] k = "encoder" -> EncoderNew

Parameters(k) ==
    CASE k = "valve" -> ValveParameters
      [] k = "speaker" -> SpeakerParameters
      [] k = "screen" -> ScreenParameters
      [] k = "break" -> BreakParameters
      [] k = "ttl" -> TTLParameters
      [] k = "lick" -> LickParameters
      [] k = "analog" -> AnalogParameters
      [] k = "torque" -> TorqueParameters
      [] k = "encoder" -> EncoderParameters

Commands(k) ==
    CASE k = "valve" -> ValveCommands
      [] k = "speaker" -> SpeakerCommands
      [] k = "screen" -> ScreenCommands
      [] k = "break" -> BreakCommands
      [] k = "ttl" -> TTLCommands
      [] k = "lick" -> LickCommands
      [] k = "analog" -> AnalogCommands
      [] k = "torque" -> TorqueCommands
      [] k = "encoder" -> EncoderCommands

\* What the hardware may return to the reads of one RunActiveCommand call.
NoInput == {0}
Inputs(k, c, mm) ==
    CASE k = "ttl" /\ mm.command = TTL_kCheckState /\ ~c.kOutput -> BOOLEAN
      [] k = "lick" /\ mm.command = Lick_kCheckState -> LickSamples
      [] k = "analog" /\ mm.command = Analog_kCheckState -> AnalogSamples
      [] k = "torque" /\ mm.command = Torque_kCheckState -> TorqueSamples
      [] k = "encoder" /\ mm.command = Encoder_kCheckState -> (-MaxMotion)..MaxMotion
      [] k = "encoder" /\ mm.command = Encoder_kGetPPR -> PPRReadings
      [] OTHER -> NoInput

\* The readings of the stage timer at which a kernel cycle may find a
\* pending command: the instants at which one of its waits can end.
Instants(k) ==
    CASE k = "valve" -> {Valve_DefaultPulseDuration,
                         Valve_DefaultToneDuration - Valve_DefaultPulseDuration,
                         Valve_DefaultToneDuration}
      [] k = "speaker" -> {Speaker_DefaultPulseDuration}
      [] k = "screen" -> {Screen_DefaultPulseDuration}
      [] k = "ttl" -> {TTL_DefaultPulseDuration}
      [] OTHER -> {}

SetupModule(k, c, mm) ==
    CASE k = "valve" -> ValveSetupModule(c, mm)
      [] k = "speaker" -> SpeakerSetupModule(c, mm)
      [] k = "screen" -> ScreenSetupModule(c, mm)
      [] k = "break" -> BreakSetupModule(c, mm)
      [] k = "ttl" -> TTLSetupModule(c, mm)
      [] k = "lick" -> LickSetupModule(mm)
      [] k = "analog" -> AnalogSetupModule(mm)
      [] k = "torque" -> TorqueSetupModule(mm)
      [] k = "encoder" -> EncoderSetupModule(mm)

RunActiveCommand(k, c, mm, in) ==
    CASE k = "valve" -> ValveRunActiveCommand(c, mm)
      [] k = "speaker" -> SpeakerRunActiveCommand(mm)
      [] k = "screen" -> ScreenRunActiveCommand(c, mm)
      [] k = "break" -> BreakRunActiveCommand(c, mm)
      [] k = "ttl" -> TTLRunActiveCommand(c, mm, in)
      [] k = "lick" -> LickRunActiveCommand(mm, in)
      [] k = "analog" -> AnalogRunActiveCommand(mm, in)
      [] k = "torque" -> TorqueRunActiveCommand(c, mm, in)
      [] k = "encoder" -> EncoderRunActiveCommand(c, mm, in)

Quiet(mm) == [mm EXCEPT !.out = <<>>]

\* The template parameters of the twin: the same module wired with the
\* opposite polarity (a normally-open valve for a normally-closed one).
TwinConfig(k, c) ==
    IF k = "valve" THEN [c EXCEPT !.kNormallyClosed = ~@] ELSE c

\* The messages among the entries of an output.
Events(q) == SelectSeq(q, LAMBDA e : e[1] = "send")
\* The pin writes among the entries of an output.
Writes(q) == SelectSeq(q, LAMBDA e : e[1] = "write")

\* The bookkeeping of the sensor claims.
\*   Encoder: sum is the sum of the motions of the checks since the last
\*   report or setup, kept while steady: while every such check found both
\*   directions reportable; reported tells that the last check reported.
\*   Lick: seenAbove tells that some check read a sample at or above
\*   signal_threshold; below that the last check read one below it; zeros
\*   counts the zero events of the checks since the last sample at or above
\*   the threshold (2 stands for two or more); passed tells that one of these
\*   checks read a sample further than delta_threshold from the stored one;
\*   pz0 is previous_zero as that last sample at or above the threshold left it.
\*   TTL, Torque, Lick: lastEv and priorEv, see HistEvent.
\*   Valve, of the tone-coupled pulse in flight: held is the time stage 2
\*   had lasted when the command left it, toneTime the time between the
\*   stage-1 and the stage-5 write of the tone pin, fixed tells that the
\*   parameters were not changed since the command was activated.
HistInit ==
    [sum |-> 0, steady |-> TRUE, reported |-> TRUE,
     seenAbove |-> FALSE, below |-> FALSE, zeros |-> 0, passed |-> FALSE, pz0 |-> TRUE,
     lastEv |-> "none", priorEv |-> "none",
     held |-> 0, toneTime |-> 0, fixed |-> TRUE,
     both |-> TRUE, lost |-> 0]

\* What an event of a TTL, Torque or Lick module tells: the level of the
\* input pin, or whether the torque or the lick signal is zero.
EventClass(e) ==
    CASE e[2] = "kInputOn" -> "on"
      [] e[2] = "kInputOff" -> "off"
      [] e[2] \in {"kCCWTorque", "kCWTorque", "kChanged"} ->
             (IF e[3] = 0 THEN "zero" ELSE "nonzero")
      [] OTHER -> "none"

\* TTL, Torque, Lick: lastEv is the class of the event the module emitted last
\* ("none" before any), priorEv what lastEv was before the last call.
HistEvent(h, after) ==
    LET evs == SelectSeq(Events(after.out), LAMBDA e : EventClass(e) # "none")
    IN  [h EXCEPT !.priorEv = h.lastEv,
                  !.lastEv = IF evs = <<>> THEN @ ELSE EventClass(evs[Len(evs)])]

\* The motion an output reports, CCW counted positive and CW negative.
RECURSIVE SignedMotion(_)
SignedMotion(q) ==
    IF q = <<>> THEN 0
    ELSE (CASE Head(q)[1] = "send" /\ Head(q)[2] = "kRotatedCCW" -> Head(q)[3]
            [] Head(q)[1] = "send" /\ Head(q)[2] = "kRotatedCW" -> -Head(q)[3]
            [] OTHER -> 0) + SignedMotion(Tail(q))

\* Encoder: both tells that every check since SetupModule ran with both
\* directions reportable, and lost is then the motion read by these checks
\* that is neither reported nor in the accumulator.
HistEncoder(c, h, before, in, after) ==
    LET sum0 == IF h.reported THEN 0 ELSE h.sum
        steady1 == (h.reported \/ h.steady) /\ before.p.report_CW /\ before.p.report_CCW
        both1 == h.both /\ before.p.report_CW /\ before.p.report_CCW
    IN  [h EXCEPT !.sum = IF steady1 THEN sum0 + in * kMultiplier(c) ELSE 0,
                  !.steady = steady1,
                  !.reported = (Events(after.out) # <<>>),
                  !.both = both1,
                  !.lost = IF both1
                           THEN @ + in * kMultiplier(c)
                                  - (SignedMotion(after.out) + after.overflow - before.overflow)
                           ELSE 0]

HistLick(h, before, in, after) ==
    IF in >= before.p.signal_threshold
    THEN [h EXCEPT !.seenAbove = TRUE, !.below = FALSE, !.zeros = 0, !.passed = FALSE,
                   !.pz0 = after.previous_zero]
    ELSE [h EXCEPT !.below = TRUE,
                   !.zeros = Min2(2, @ + Len(SelectSeq(after.out,
                                    LAMBDA e : e = <<"send", "kChanged", 0>>))),
                   !.passed = @ \/ Abs(in - before.previous_readout) > before.p.delta_threshold]

\* The times of a tone-coupled pulse: a stage has lasted what the stage
\* timer reads in the call that leaves it, and no time if the call that
\* entered it leaves it.
HistValve(h, before, after) ==
    LET left2 == before.stage \in {1, 2} /\ after.stage \notin {1, 2}
        held == IF left2 THEN (IF before.stage = 2 THEN before.delay_timer ELSE 0)
                ELSE h.held
        done == before.stage > 0 /\ after.stage = 0 /\ ~after.halted
    IN  [h EXCEPT !.held = held,
                  !.toneTime = IF done
                               THEN held + (IF before.stage = 4 THEN before.delay_timer ELSE 0)
                               ELSE @]

HistAfter(k, c, h, before, in, after) ==
    CASE k = "encoder" /\ before.command = Encoder_kCheckState ->
             HistEncoder(c, h, before, in, after)
      [] k = "lick" /\ before.command = Lick_kCheckState ->
             HistEvent(HistLick(h, before, in, after), after)
      [] k \in {"ttl", "torque"} -> HistEvent(h, after)
      [] k = "valve" /\ before.command = Valve_kSendPulse /\ c.kTonePin # NoTonePin ->
             HistValve(h, before, after)
      [] OTHER -> h

\* The bookkeeping after SetupModule: _overflow is reset with the encoder.
HistSetup(k, h, after) ==
    CASE k = "encoder" -> HistInit
      [] k \in {"ttl", "torque", "lick"} -> HistEvent(h, after)
      [] OTHER -> h

Init ==
    /\ kind \in Kinds
    /\ cfg \in Configs(kind)
    /\ m = New(kind, cfg)
    /\ twin = New(kind, TwinConfig(kind, cfg))
    /\ action_lock = FALSE
    /\ ttl_lock = FALSE
    /\ ready = FALSE
    /\ ret = TRUE
    /\ last = "init"
    /\ pre = m
    /\ input = 0
    /\ log = <<>>
    /\ hist = HistInit
    /\ peer = TTLNew
    /\ turn = 1

\* Kernel::Setup calls SetupModule of the module.
Setup ==
    /\ m.stage = 0
    /\ ~m.halted
    /\ m' = SetupModule(kind, cfg, Quiet(m))
    /\ twin' = SetupModule(kind, TwinConfig(kind, cfg), Quiet(twin))
    /\ ready' = TRUE
    /\ ret' = TRUE
    /\ last' = "setup"
    /\ pre' = Quiet(m)
    /\ input' = 0
    /\ log' = m'.out
    /\ hist' = HistSetup(kind, hist, m')
    /\ UNCHANGED <<peer, turn, kind, cfg, action_lock, ttl_lock>>

\* The kernel activates a received command: the module enters stage 1.
Activated(mm, code) == [Quiet(mm) EXCEPT !.command = code, !.stage = 1, !.delay_timer = 0]

Activate ==
    /\ ready
    /\ m.stage = 0
    /\ ~m.halted
    /\ \E code \in 1..MaxCommand :
           /\ m' = Activated(m, code)
           /\ twin' = Activated(twin, code)
           /\ log' = <<<<"activate", code>>>>
    /\ ret' = TRUE
    /\ last' = "other"
    /\ pre' = m'
    /\ input' = 0
    /\ hist' = [hist EXCEPT !.held = 0, !.toneTime = 0, !.fixed = TRUE]
    /\ UNCHANGED <<peer, turn, kind, cfg, action_lock, ttl_lock, ready>>

\* One cycle of the kernel with a command pending: RunActiveCommand.
Run ==
    /\ ready
    /\ m.stage > 0
    /\ ~m.halted
    /\ ~Blocked(m)
    /\ \E in \in Inputs(kind, cfg, m) :
           LET r == RunActiveCommand(kind, cfg, Quiet(m), in)
           IN  /\ m' = r.m
               /\ ret' = r.ret
               /\ input' = in
               /\ log' = log \o r.m.out
               /\ hist' = HistAfter(kind, cfg, hist, m, in, r.m)
               /\ twin' = IF twin.stage > 0 /\ ~twin.halted
                          THEN RunActiveCommand(kind, TwinConfig(kind, cfg), Quiet(twin), in).m
                          ELSE Quiet(twin)
    /\ last' = "run"
    /\ pre' = Quiet(m)
    /\ UNCHANGED <<peer, turn, kind, cfg, action_lock, ttl_lock, ready>>

\* Time passes between two cycles while a command is pending.
Elapsed(mm, t) == IF mm.stage > 0 THEN [Quiet(mm) EXCEPT !.delay_timer = t] ELSE Quiet(mm)

Elapse ==
    /\ m.stage > 0
    /\ \E t \in Instants(kind) :
           /\ t > m.delay_timer
           /\ m' = Elapsed(m, t)
           /\ twin' = Elapsed(twin, t)
    /\ ret' = TRUE
    /\ last' = "other"
    /\ pre' = m'
    /\ input' = 0
    /\ UNCHANGED <<peer, turn, kind, cfg, action_lock, ttl_lock, ready, log, hist>>

\* The kernel receives new values of the locks.  A sensor module writes no
\* pin and never reads the locks: they are followed for the actuators only.
SetLocks ==
    /\ kind \in ActuatorKinds
    /\ \E a \in BOOLEAN, t \in BOOLEAN :
           /\ <<a, t>> # <<action_lock, ttl_lock>>
           /\ action_lock' = a
           /\ ttl_lock' = t
    /\ m' = Quiet(m)
    /\ twin' = Quiet(twin)
    /\ ret' = TRUE
    /\ last' = "other"
    /\ pre' = m'
    /\ input' = 0
    /\ UNCHANGED <<peer, turn, kind, cfg, ready, log, hist>>

\* SetCustomParameters with a well-formed parameter message.
SetCustomParameters ==
    /\ ready
    /\ ~Blocked(m)
    /\ \E p \in Parameters(kind) :
           /\ p # m.p
           /\ m' = [Quiet(m) EXCEPT !.p = p]
           /\ twin' = [Quiet(twin) EXCEPT !.p = p]
    /\ ret' = TRUE
    /\ last' = "other"
    /\ pre' = m'
    /\ input' = 0
    /\ hist' = [hist EXCEPT !.fixed = @ /\ ~(kind = "valve" /\ m.command = Valve_kSendPulse)]
    /\ UNCHANGED <<peer, turn, kind, cfg, action_lock, ttl_lock, ready, log>>

\* The kernel clears a module that aborted or did not recognize the command.
Cleared(mm) == [Quiet(mm) EXCEPT !.halted = FALSE, !.command = 0, !.stage = 0]

Clear ==
    /\ m.halted \/ (last = "run" /\ ~ret)
    /\ m' = Cleared(m)
    /\ twin' = Cleared(twin)
    /\ ret' = TRUE
    /\ last' = "other"
    /\ pre' = m'
    /\ input' = 0
    /\ UNCHANGED <<peer, turn, kind, cfg, action_lock, ttl_lock, ready, log, hist>>

Next == Setup \/ Activate \/ Run \/ Elapse \/ SetLocks \/ SetCustomParameters \/ Clear

Spec == Init /\ [][Next]_vars

\* A controller whose module instance is of one class.
InitValve == Init /\ kind = "valve"
SpecValve == InitValve /\ [][Next]_vars

\* A sensor module has no timed stage and never reads the locks.
NextSensor == Setup \/ Activate \/ Run \/ SetCustomParameters \/ Clear

InitEncoder == Init /\ kind = "encoder"
SpecEncoder == InitEncoder /\ [][NextSensor]_vars

InitLick == Init /\ kind = "lick"
SpecLick == InitLick /\ [][NextSensor]_vars

---------------------------------------------------------------------------
(* EncoderModule: the report of a check.                                   *)

EncoderChecked == kind = "encoder" /\ last = "run" /\ pre.command = Encoder_kCheckState

EncoderSumReport(sum) ==
    <<<<"send", IF sum > 0 THEN "kRotatedCCW" ELSE "kRotatedCW", Abs(sum)>>>>

---------------------------------------------------------------------------
(* LickModule: the reports of a check.                                     *)

LickChecked == kind = "lick" /\ last = "run" /\ pre.command = Lick_kCheckState

\* The run a check belongs to: the checks of samples below signal_threshold
\* that follow a check of a sample at or above it.
LickInRun == kind = "lick" /\ hist.seenAbove /\ hist.below

\* C2 (as stated): after a sample at or above signal_threshold, a following
\* run of samples below signal_threshold produces exactly one Changed(0)
\* event, however many samples the run has.
C2_ExactlyOneZero == LickInRun => hist.zeros = 1

\* C2 (amended): such a run produces at most one Changed(0) event; it has
\* produced one exactly when the last report before the run was non-zero and
\* some sample of the run differed from the stored sample by more than
\* delta_threshold.
C2_AtMostOneZero ==
    LickInRun => hist.zeros = (IF hist.passed /\ ~hist.pz0 THEN 1 ELSE 0)

\* A sample below the threshold, far from the stored one, checked after the
\* run has already produced its zero event.
C2_Witness ==
    /\ LickInRun
    /\ LickChecked
    /\ hist.zeros = 1
    /\ pre.previous_zero
    /\ Abs(input - pre.previous_readout) > pre.p.delta_threshold
    /\ Events(m.out) = <<>>

\* C7: the decision of a check.  A sample within delta_threshold of the
\* stored one emits nothing; otherwise a sample at or above signal_threshold
\* emits Changed(sample) and clears previous_zero; otherwise Changed(0) is
\* emitted exactly when previous_zero was clear, and previous_zero is set.
C7_DecisionRule ==
    LickChecked =>
        IF Abs(input - pre.previous_readout) <= pre.p.delta_threshold
        THEN Events(m.out) = <<>>
        ELSE IF input >= pre.p.signal_threshold
        THEN Events(m.out) = <<<<"send", "kChanged", input>>>> /\ ~m.previous_zero
        ELSE /\ Events(m.out) =
                    (IF pre.previous_zero THEN <<>> ELSE <<<<"send", "kChanged", 0>>>>)
             /\ m.previous_zero

\* The second read of the scenario: 50 after a reported 250 emits Changed(0).
C7_Witness ==
    /\ LickChecked
    /\ pre.p.signal_threshold = Lick_DefaultSignalThreshold
    /\ pre.p.delta_threshold = Lick_DefaultDeltaThreshold
    /\ pre.previous_readout = 250
    /\ ~pre.previous_zero
    /\ input = 50
    /\ Events(m.out) = <<<<"send", "kChanged", 0>>>>
    /\ m.previous_zero

---------------------------------------------------------------------------
(* The actuator modules.                                                   *)

\* The lock the writes of the module's class of pins consult.
LockEngaged == IF kind = "ttl" THEN ttl_lock ELSE action_lock

\* The entries of an output that are attempts to write a pin.
Attempts(q) == SelectSeq(q, LAMBDA e : e[1] \in {"write", "rejected"})

\* C3 (as stated): when an actuator module attempts a write with the lock of
\* its pins engaged, the call emits exactly one OutputLocked event, changes no
\* pin, aborts the command and leaves the module halted.
C3_LockedWriteAborts ==
    (last = "run" /\ kind \in ActuatorKinds /\ LockEngaged /\ Attempts(m.out) # <<>>) =>
        /\ Events(m.out) = <<<<"send", "kOutputLocked">>>>
        /\ m.pins = pre.pins
        /\ m.halted
        /\ m.stage = 0

\* C4: a normally-closed and a normally-open valve given the same setup flag,
\* commands, locks and clock readings emit the same events in every call, and
\* their valve pins hold complementary levels after every call, the
\* normally-closed one HIGH exactly when it is open.
C4_PolaritySymmetry ==
    (kind = "valve" /\ ready) =>
        /\ Events(m.out) = Events(twin.out)
        /\ m.stage = twin.stage
        /\ m.halted = twin.halted
        /\ m.pins["valve"] = ~twin.pins["valve"]
        /\ m.pins["tone"] = twin.pins["tone"]
        /\ (last = "run" /\ Events(m.out) = <<<<"send", "kOpen">>>>) =>
               m.pins["valve"] = (IF cfg.kNormallyClosed THEN HIGH ELSE LOW)
        /\ (last = "run" /\ Events(m.out) = <<<<"send", "kClosed">>>>) =>
               m.pins["valve"] = (IF cfg.kNormallyClosed THEN LOW ELSE HIGH)

\* The closing call of a pulse: both valves report Closed, the normally-closed
\* one with its pin LOW and the normally-open one with its pin HIGH.
C4_Witness ==
    /\ kind = "valve"
    /\ cfg.kNormallyClosed
    /\ last = "run"
    /\ pre.command = Valve_kSendPulse
    /\ pre.stage = 2
    /\ Events(m.out) = <<<<"send", "kClosed">>>>
    /\ Events(twin.out) = <<<<"send", "kClosed">>>>
    /\ m.pins["valve"] = LOW
    /\ twin.pins["valve"] = HIGH

\* The log is that of the command code, activated on a module of kind k.
LogOf(k, code) == kind = k /\ log # <<>> /\ log[1] = <<"activate", code>>

\* A SendPulse of a valve without a tone pin none of whose writes was rejected.
PulseNoTone ==
    /\ LogOf("valve", Valve_kSendPulse)
    /\ cfg.kTonePin = NoTonePin
    /\ Attempts(log) = Writes(log)

\* C5: a SendPulse of a valve without a tone pin, the lock not engaged at its
\* writes.  Stage 1 drives the pin to the open level and emits Open; the pin
\* stays open, with no further event, until a call finds pulse_duration
\* microseconds elapsed since the stage-1 advance; that call drives the pin to
\* the closed level, emits Closed and completes the command, whose events are
\* exactly Open, Closed.
C5_PulseOpenThenClosed ==
    PulseNoTone =>
        /\ m.stage \in {0, 1, 2}
        /\ m.stage = 1 => Tail(log) = <<>>
        /\ m.stage = 2 =>
               /\ Events(log) = <<<<"send", "kOpen">>>>
               /\ Writes(log) = <<<<"write", "valve", Valve_kOpen(cfg)>>>>
               /\ m.pins["valve"] = Valve_kOpen(cfg)
        /\ m.stage = 0 =>
               /\ Events(log) = <<<<"send", "kOpen">>, <<"send", "kClosed">>>>
               /\ Writes(log) = <<<<"write", "valve", Valve_kOpen(cfg)>>,
                                  <<"write", "valve", Valve_kClose(cfg)>>>>
               /\ ~m.halted
               /\ m.command = 0
        /\ (last = "run" /\ <<"send", "kClosed">> \in {m.out[i] : i \in 1..Len(m.out)}) =>
               /\ m.pins["valve"] = Valve_kClose(cfg)
               /\ (IF pre.stage = 2 THEN pre.delay_timer ELSE 0) >= pre.p.pulse_duration

\* The closing call of a pulse of the default duration, after a call that
\* found the duration not yet elapsed.
C5_Witness ==
    /\ PulseNoTone
    /\ last = "run"
    /\ pre.stage = 2
    /\ pre.p.pulse_duration = Valve_DefaultPulseDuration
    /\ pre.delay_timer >= Valve_DefaultPulseDuration
    /\ m.stage = 0
    /\ Events(log) = <<<<"send", "kOpen">>, <<"send", "kClosed">>>>
    /\ m.pins["valve"] = Valve_kClose(cfg)

\* The staged commands of a module of kind k.
StagedCommands(k) ==
    CASE k = "valve" -> {Valve_kSendPulse, Valve_kTonePulse}
      [] k = "speaker" -> {Speaker_kSendPulse}
      [] k = "screen" -> {Screen_kToggle}
      [] k = "ttl" -> {TTL_kSendPulse}
      [] OTHER -> {}

\* C8: while a staged command is in flight its stage never decreases, and it
\* returns to 0 only in a call of RunActiveCommand that completes or aborts
\* the command.
C8_StageMonotone ==
    [][(m.stage > 0 /\ m.command \in StagedCommands(kind)) =>
           \/ m'.stage >= m.stage /\ m'.command = m.command
           \/ m'.stage = 0 /\ m'.command = 0 /\ last' = "run"]_vars

\* The call that completes a tone-coupled pulse from stage 4, through stage 5.
C8_Witness ==
    /\ kind = "valve"
    /\ last = "run"
    /\ pre.command = Valve_kSendPulse
    /\ pre.stage = 4
    /\ m.stage = 0
    /\ ~m.halted

\* C9: however many calls poll a pulse command, none of its writes and none
\* of its events happens twice: the stage-1 write and event, and the stage-3
\* write and event, happen at most once per command.
C9_AtMostOnce ==
    (log # <<>> /\ log[1][1] = "activate" /\ log[1][2] \in StagedCommands(kind)) =>
        \A i, j \in 2..Len(log) : log[i] = log[j] => i = j

\* A call that polls a speaker pulse in stage 2 before its duration elapsed:
\* nothing is written, the log holds the one stage-1 write and event.
C9_Witness ==
    /\ LogOf("speaker", Speaker_kSendPulse)
    /\ last = "run"
    /\ pre.stage = 2
    /\ m.stage = 2
    /\ m.out = <<>>
    /\ Tail(log) = <<<<"write", "pin", HIGH>>, <<"send", "kOn">>>>

\* C10: RunActiveCommand returns false exactly when the active command code
\* is not one of the module's command codes, and then writes no pin, emits no
\* event and changes nothing of the module; it returns true for every code of
\* the module, the command completed, waiting or aborted.
C10_FalseIffUnrecognized ==
    last = "run" =>
        /\ ret = (pre.command \in Commands(kind))
        /\ ~ret => m = pre

\* A call on a TTL module with a code that is not one of its command codes.
C10_Witness ==
    /\ last = "run"
    /\ kind = "ttl"
    /\ pre.command \notin TTLCommands
    /\ ~ret
    /\ m = pre

---------------------------------------------------------------------------
(* TTLModule: the role of the pin.                                         *)

\* The call ran a command the configured role of the TTL pin does not allow.
TTLWrongRole ==
    /\ kind = "ttl"
    /\ last = "run"
    /\ \/ ~cfg.kOutput /\ pre.command \in {TTL_kSendPulse, TTL_kToggleOn, TTL_kToggleOff}
       \/ cfg.kOutput /\ pre.command = TTL_kCheckState

\* The module mm after a call rejected for the role of the pin, made from b.
TTLRejected(b, mm) ==
    /\ mm.out = <<<<"send", "kInvalidPinMode">>>>
    /\ mm.stage = 0
    /\ mm.halted
    /\ mm.pins = b.pins
    /\ mm.previous_input_status = b.previous_input_status

\* C11: SendPulse, ToggleOn and ToggleOff on an input-configured TTL module,
\* and CheckState on an output-configured one, emit exactly one
\* InvalidPinMode event and abort in the same call, at any stage, without
\* writing or reading the pin and without changing the stored input level.
C11_RoleEnforced ==
    TTLWrongRole =>
        /\ TTLRejected(pre, m)
        /\ \A s \in 1..3, in \in BOOLEAN :
               TTLRejected(pre, TTLRunActiveCommand(cfg, [pre EXCEPT !.stage = s], in).m)

\* An output-configured TTL module asked to check the state of its pin.
C11_Witness ==
    /\ TTLWrongRole
    /\ cfg.kOutput
    /\ pre.command = TTL_kCheckState
    /\ m.halted
    /\ m.out = <<<<"send", "kInvalidPinMode">>>>

---------------------------------------------------------------------------
(* The toggle commands.                                                    *)

ToggleCommands(k) ==
    CASE k = "valve" -> {Valve_kToggleOn, Valve_kToggleOff}
      [] k = "break" -> {Break_kToggleOn, Break_kToggleOff}
      [] k = "speaker" -> {Speaker_kToggleOn, Speaker_kToggleOff}
      [] k = "ttl" -> {TTL_kToggleOn, TTL_kToggleOff}
      [] OTHER -> {}

\* The outcome of a toggle command: one write and completion with the lock
\* free, abortion with no write with the lock engaged.
ToggleOutcome ==
    /\ m.stage = 0
    /\ m.command = 0
    /\ IF LockEngaged
       THEN m.halted /\ Writes(m.out) = <<>> /\ m.pins = pre.pins
       ELSE ~m.halted /\ Len(Writes(m.out)) = 1 /\ Len(Attempts(m.out)) = 1

\* C12 (as stated): every toggle command of the Valve, Brake, Speaker and TTL
\* modules ends in the call in which it is first run, with exactly one pin
\* write and completion when the lock is free and abortion when the lock
\* rejects the write.
C12_ToggleOneWrite ==
    (last = "run" /\ pre.command \in ToggleCommands(kind)) => ToggleOutcome

\* C12 (amended): the same for the toggle commands of the Valve, Brake and
\* Speaker modules and of an output-configured TTL module; on an
\* input-configured TTL module the command also ends in its first call, with
\* no write and abortion.
C12_ToggleSingleStage ==
    (last = "run" /\ pre.command \in ToggleCommands(kind)) =>
        IF kind = "ttl" /\ ~cfg.kOutput
        THEN m.stage = 0 /\ m.command = 0 /\ m.halted /\ Attempts(m.out) = <<>>
        ELSE ToggleOutcome

\* A brake engaged by ToggleOn with the lock free: one write, completed.
C12_Witness ==
    /\ kind = "break"
    /\ last = "run"
    /\ pre.command = Break_kToggleOn
    /\ ~LockEngaged
    /\ Len(Writes(m.out)) = 1
    /\ m.stage = 0
    /\ ~m.halted

---------------------------------------------------------------------------
(* BreakModule: the breaking power.                                        *)

\* The duty cycle at which the brake brakes hardest: that of the level
\* SetupModule writes to engage it.
MaxBraking(c) == Duty(BreakSetupLevel([c EXCEPT !.kStartEngaged = TRUE]))

---------------------------------------------------------------------------
(* The events of SetupModule.                                              *)

\* The modules said to broadcast their initial state.
BroadcastKinds == {"analog", "lick", "encoder", "torque", "valve"}

\* The event that stands for the zero state of a sensor module.
ZeroEvent(k) ==
    CASE k = "analog" -> <<"send", "kNonZero", 0>>
      [] k = "lick" -> <<"send", "kChanged", 0>>
      [] k = "encoder" -> <<"send", "kRotatedCW", 0>>
      [] k = "torque" -> <<"send", "kCCWTorque", 0>>

\* C14 (as stated): one SetupModule call of the Analog, Lick, Encoder, Torque
\* and Valve modules emits exactly one event, that of the initial state.
C14_OneSetupEvent ==
    (last = "setup" /\ kind \in BroadcastKinds) => Len(Events(m.out)) = 1

\* C14 (amended): one SetupModule call of the Analog, Lick, Encoder and
\* Torque modules emits exactly one event, with the value 0; one SetupModule
\* call of the Valve module emits exactly two, ToneOff for the tone pin and
\* then Closed or Open, the state the valve is set up in.
C14_SetupEvents ==
    (last = "setup" /\ kind \in BroadcastKinds) =>
        IF kind = "valve"
        THEN Events(m.out) =
                 <<<<"send", "kToneOff">>,
                   <<"send", IF cfg.kStartClosed THEN "kClosed" ELSE "kOpen">>>>
        ELSE Events(m.out) = <<ZeroEvent(kind)>>

\* The setup of a valve that starts closed, and has no tone pin.
C14_Witness ==
    /\ last = "setup"
    /\ kind = "valve"
    /\ cfg.kStartClosed
    /\ cfg.kTonePin = NoTonePin
    /\ Len(Events(m.out)) = 2
    /\ m.pins["valve"] = Valve_kClose(cfg)

---------------------------------------------------------------------------
(* The sensor checks.                                                      *)

\* The command code of the check of a sensor module of kind k.
CheckStateCommand(k) ==
    CASE k = "lick" -> Lick_kCheckState
      [] k = "analog" -> Analog_kCheckState
      [] k = "torque" -> Torque_kCheckState
      [] k = "encoder" -> Encoder_kCheckState
      [] k = "ttl" -> TTL_kCheckState

\* The last call ran the check of a sensor module (a TTL module being a
\* sensor when configured as an input).
SensorChecked ==
    /\ last = "run"
    /\ kind \in SensorKinds \cup {"ttl"}
    /\ kind = "ttl" => ~cfg.kOutput
    /\ pre.command = CheckStateCommand(kind)

\* C15: every sensor check (Lick, Analog, Torque, TTL input, Encoder) is
\* single-shot: whatever the sample and the filter state, the command
\* completes in the call in which it is run and is not left pending.
C15_CheckSingleShot ==
    SensorChecked => (m.stage = 0 /\ m.command = 0 /\ ~m.halted)

\* A torque check that returns early, the sample close to the stored one.
C15_Witness ==
    /\ SensorChecked
    /\ kind = "torque"
    /\ Abs(input - pre.previous_readout) <= pre.p.delta_threshold
    /\ m.out = <<>>
    /\ m.stage = 0

\* C16: the check of a TTL input emits an event exactly when the level read
\* differs from the level of the last emitted event (LOW before any event),
\* InputOn for HIGH and InputOff for LOW; so the events alternate, starting
\* with InputOn, and no status is emitted twice in a row.
C16_EdgeNotification ==
    (SensorChecked /\ kind = "ttl") =>
        LET lastLevel == (hist.priorEv = "on")
        IN  /\ Events(m.out) =
                   (IF input # lastLevel
                    THEN <<<<"send", IF input THEN "kInputOn" ELSE "kInputOff">>>>
                    ELSE <<>>)
            /\ Events(m.out) # <<>> =>
                   /\ hist.lastEv # hist.priorEv
                   /\ hist.priorEv = "none" => hist.lastEv = "on"

\* A check that reads LOW after InputOn was emitted, and emits InputOff.
C16_Witness ==
    /\ SensorChecked
    /\ kind = "ttl"
    /\ hist.priorEv = "on"
    /\ input = LOW
    /\ Events(m.out) = <<<<"send", "kInputOff">>>>

\* C17: the check of the Analog module is stateless thresholding: it emits
\* exactly one NonZero event carrying the sample when the sample exceeds
\* signal_threshold and nothing otherwise, equality included; the outcome is
\* a function of the sample and the threshold alone, and the value emitted
\* by a check is never zero.
C17_StatelessThreshold ==
    (SensorChecked /\ kind = "analog") =>
        /\ Events(m.out) =
               (IF input > pre.p.signal_threshold
                THEN <<<<"send", "kNonZero", input>>>>
                ELSE <<>>)
        /\ \A i \in 1..Len(Events(m.out)) : Events(m.out)[i][3] # 0

\* A check that reads a sample equal to a non-zero threshold, and is silent.
C17_Witness ==
    /\ SensorChecked
    /\ kind = "analog"
    /\ input = pre.p.signal_threshold
    /\ input > 0
    /\ Events(m.out) = <<>>

\* The last call ran the check of a Torque module and emitted an event of a
\* non-zero value.
TorqueReported ==
    /\ SensorChecked
    /\ kind = "torque"
    /\ Events(m.out) # <<>>
    /\ Events(m.out)[1][3] # 0

\* C18: an event of a Torque check that is not a zero event carries the
\* magnitude |sample - baseline|, which lies in 0..baseline, as CCWTorque
\* when the sample is above the baseline and CWTorque when it is below
\* (swapped under kInvertDirection); CWTorque is emitted only while
\* report_CW is set and CCWTorque of a non-zero value only while report_CCW.
C18_Rescaling ==
    TorqueReported =>
        LET e == Events(m.out)[1]
        IN  /\ Len(Events(m.out)) = 1
            /\ e[3] = Abs(input - cfg.kBaseline)
            /\ e[3] \in 0..cfg.kBaseline
            /\ input > cfg.kBaseline =>
                   e[2] = (IF cfg.kInvertDirection THEN "kCWTorque" ELSE "kCCWTorque")
            /\ input < cfg.kBaseline =>
                   e[2] = (IF cfg.kInvertDirection THEN "kCCWTorque" ELSE "kCWTorque")
            /\ e[2] = "kCWTorque" => pre.p.report_CW
            /\ e[2] = "kCCWTorque" => pre.p.report_CCW

\* C19: a Torque check emits a zero-valued event only if the event the
\* module emitted last before it, the zero event of SetupModule included,
\* was of a non-zero value; so no two zero-valued events are adjacent in the
\* events of a Torque module.
C19_ZeroDebounce ==
    (SensorChecked /\ kind = "torque") =>
        \A i \in 1..Len(Events(m.out)) :
            Events(m.out)[i][3] = 0 => hist.priorEv = "nonzero"

\* C20: a check that starts with |_overflow| <= delta_threshold, as every
\* check under fixed parameters does, ends with |_overflow| <=
\* delta_threshold; and a motion in a direction that is not reported, of
\* whatever size, leaves _overflow at or within delta_threshold on its side,
\* so that it emits no event of that direction.
C20_BoundedAmortization ==
    EncoderChecked =>
        LET thr == pre.p.delta_threshold
            new_motion == input * kMultiplier(cfg)
            added == EncoderAccumulate(pre, new_motion)
        IN  /\ (Abs(pre.overflow) <= thr \/ new_motion # 0) => Abs(m.overflow) <= thr
            /\ (new_motion < 0 /\ ~pre.p.report_CW /\ pre.overflow >= -thr) =>
                   /\ added >= -thr
                   /\ m.overflow >= -thr
                   /\ \A i \in 1..Len(Events(m.out)) : Events(m.out)[i][2] # "kRotatedCW"
            /\ (new_motion > 0 /\ ~pre.p.report_CCW /\ pre.overflow <= thr) =>
                   /\ added <= thr
                   /\ m.overflow <= thr
                   /\ \A i \in 1..Len(Events(m.out)) : Events(m.out)[i][2] # "kRotatedCCW"

\* A clockwise motion that is not reported and would take _overflow below
\* -delta_threshold: the check leaves it at -delta_threshold.
C20_Witness ==
    /\ EncoderChecked
    /\ input * kMultiplier(cfg) < 0
    /\ ~pre.p.report_CW
    /\ pre.p.delta_threshold > 0
    /\ pre.overflow + input * kMultiplier(cfg) < -pre.p.delta_threshold
    /\ m.overflow = -pre.p.delta_threshold
    /\ Events(m.out) = <<>>

---------------------------------------------------------------------------
(* The locks and the waits of the staged commands.                         *)

\* C21: while the lock of its pins is engaged, no call of RunActiveCommand
\* of an actuator module changes the level of a pin, the tone pin of a valve
\* pulse in stages 1 and 5 included.
C21_LockedNoPinChange ==
    (last = "run" /\ kind \in ActuatorKinds /\ LockEngaged) => m.pins = pre.pins

---------------------------------------------------------------------------
(* EncoderModule: the estimate of the pulses per revolution.               *)

\* The last call ran GetPPR and has returned.
PPRMeasured ==
    kind = "encoder" /\ last = "run" /\ pre.command = Encoder_kGetPPR /\ ~Blocked(m)

\* The entries of an output whose first field is tag.
Tagged(q, tag) == SelectSeq(q, LAMBDA e : e[1] = tag)

\* C22: GetPPR emits exactly one PPR event, whose value is the half-up
\* rounded average (S + 5) \div 10 truncated to 16 bits, S being the sum of
\* the absolute pulse counts of exactly 10 intervals, each read and reset
\* at an index wait that follows a delay, after one baseline index wait and
\* reset: 11 index waits in all.
C22_PPRAverage ==
    PPRMeasured =>
        LET S == SumAbs(input.counts)
        IN  /\ Len(input.counts) = 10
            /\ Events(m.out) = <<<<"send", "kPPR", ((S + 5) \div 10) % 65536>>>>
            /\ m.out[Len(m.out)][1] = "send"
            /\ Len(Tagged(m.out, "wait")) = 11
            /\ Len(Tagged(m.out, "delay")) = 10
            /\ SubSeq(m.out, 1, 2) = <<<<"wait", "kPinX">>, <<"reset", 0>>>>
            /\ Tagged(m.out, "readAndReset") = [i \in 1..10 |-> <<"readAndReset", input.counts[i]>>]
            /\ \A i \in 1..10 :
                   /\ m.out[3 * i][1] = "delay"
                   /\ m.out[3 * i + 1][1] = "wait"
                   /\ m.out[3 * i + 2][1] = "readAndReset"
            /\ m.stage = 0

\* A measurement whose average is rounded up and exceeds 16 bits.
C22_Witness ==
    /\ PPRMeasured
    /\ SumAbs(input.counts) % 10 >= 5
    /\ (SumAbs(input.counts) + 5) \div 10 >= 65536
    /\ Events(m.out) = <<<<"send", "kPPR", ((SumAbs(input.counts) + 5) \div 10) - 65536>>>>

\* The duration of the wait of stage 2 of the staged command of b.
Stage2Duration(b) ==
    IF kind = "valve" /\ b.command = Valve_kTonePulse THEN b.p.tone_duration
    ELSE b.p.pulse_duration

\* The last call found a staged command in a wait whose duration had not
\* elapsed: stage 2 of a pulse, or stage 4 of a tone-coupled valve pulse,
\* which lasts tone_duration - pulse_duration as an unsigned number (more
\* than every reading of the stage timer when tone_duration is the smaller).
WaitPending ==
    /\ last = "run"
    /\ kind \in ActuatorKinds
    /\ pre.command \in StagedCommands(kind)
    /\ \/ pre.stage = 2 /\ pre.delay_timer < Stage2Duration(pre)
       \/ /\ kind = "valve"
          /\ pre.command = Valve_kSendPulse
          /\ pre.stage = 4
          /\ \/ pre.p.tone_duration < pre.p.pulse_duration
             \/ pre.delay_timer < pre.p.tone_duration - pre.p.pulse_duration

\* C23: a call that finds a staged command in a wait whose duration has not
\* elapsed returns to the kernel with every pin level, the stage, the stage
\* timer and the parameters as they were, and emits nothing.
C23_WaitNoEffect ==
    WaitPending => (m = pre /\ m.out = <<>> /\ ret)

\* A call in stage 4 of a tone-coupled pulse, some but not all of the rest
\* of the tone duration elapsed.
C23_Witness ==
    /\ WaitPending
    /\ pre.stage = 4
    /\ pre.delay_timer > 0
    /\ pre.p.tone_duration > pre.p.pulse_duration
    /\ m.stage = 4
    /\ m.pins["tone"] = HIGH

---------------------------------------------------------------------------
(* ValveModule: the tone-coupled pulse.                                    *)

\* The events of a tone-coupled pulse.
ToneEvents ==
    <<<<"send", "kOpen">>, <<"send", "kToneOn">>, <<"send", "kClosed">>, <<"send", "kToneOff">>>>

\* A SendPulse of a valve with a tone pin none of whose writes was rejected.
PulseWithTone ==
    /\ LogOf("valve", Valve_kSendPulse)
    /\ cfg.kTonePin # NoTonePin
    /\ Attempts(log) = Writes(log)

\* C24: a tone-coupled pulse with tone_duration >= pulse_duration, the
\* parameters unchanged during the command and no write rejected.  Its
\* events are exactly Open, ToneOn, Closed, ToneOff in this order; the tone
\* pin is HIGH from stage 1 until the stage-5 write, which comes at least
\* tone_duration microseconds after the stage-1 write; and the command
\* completes only in the call that runs stage 5, after the tone pin is
\* driven LOW.
C24_TonePulse ==
    PulseWithTone =>
        /\ m.stage \in {0, 1, 2, 4}
        /\ m.stage = 1 => Tail(log) = <<>>
        /\ m.stage = 2 => Events(log) = SubSeq(ToneEvents, 1, 2)
        /\ m.stage = 4 => Events(log) = SubSeq(ToneEvents, 1, 3)
        /\ m.stage \in {2, 4} => m.pins["tone"] = HIGH
        /\ m.stage = 0 =>
               /\ Events(log) = ToneEvents
               /\ SubSeq(log, Len(log) - 1, Len(log)) =
                      <<<<"write", "tone", LOW>>, <<"send", "kToneOff">>>>
               /\ Writes(log) = <<<<"write", "valve", Valve_kOpen(cfg)>>,
                                  <<"write", "tone", HIGH>>,
                                  <<"write", "valve", Valve_kClose(cfg)>>,
                                  <<"write", "tone", LOW>>>>
               /\ m.pins["tone"] = LOW
               /\ m.command = 0
               /\ ~m.halted
        /\ (last = "run" /\ m.stage = 0 /\ hist.fixed
              /\ pre.p.tone_duration >= pre.p.pulse_duration) =>
               /\ hist.toneTime >= pre.p.tone_duration
               /\ hist.held >= pre.p.pulse_duration

\* The call that completes a pulse of the default durations, stage 2 left
\* after pulse_duration and stage 4 after the rest of tone_duration.
C24_Witness ==
    /\ PulseWithTone
    /\ last = "run"
    /\ pre.stage = 4
    /\ m.stage = 0
    /\ hist.fixed
    /\ pre.p.pulse_duration = Valve_DefaultPulseDuration
    /\ pre.p.tone_duration = Valve_DefaultToneDuration
    /\ hist.held = Valve_DefaultPulseDuration
    /\ hist.toneTime = Valve_DefaultToneDuration
    /\ Events(log) = ToneEvents

---------------------------------------------------------------------------
(* The pulse commands of the actuator modules.                             *)

PulseKinds == {"valve", "speaker", "screen", "ttl"}

\* The pulse command of a module of kind k.
PulseCommand(k) ==
    CASE k = "valve" -> Valve_kSendPulse
      [] k = "speaker" -> Speaker_kSendPulse
      [] k = "screen" -> Screen_kToggle
      [] k = "ttl" -> TTL_kSendPulse

\* The write that ends stage 1 and the write that ends stage 3 of the pulse
\* (a screen pulse writes its three pins, the right one last).
OnWrite ==
    CASE kind = "valve" -> <<"write", "valve", Valve_kOpen(cfg)>>
      [] kind = "screen" -> <<"write", "right", Screen_kOn(cfg)>>
      [] OTHER -> <<"write", "pin", HIGH>>
OffWrite ==
    CASE kind = "valve" -> <<"write", "valve", Valve_kClose(cfg)>>
      [] kind = "screen" -> <<"write", "right", Screen_kOff(cfg)>>
      [] OTHER -> <<"write", "pin", LOW>>

\* The status events of the two writes.
OnEvent == IF kind = "valve" THEN <<"send", "kOpen">> ELSE <<"send", "kOn">>
OffEvent == IF kind = "valve" THEN <<"send", "kClosed">> ELSE <<"send", "kOff">>

\* The entries of an output.
Entries(q) == {q[i] : i \in 1..Len(q)}

\* The last call ran the pulse command of the module.
PulseRun == last = "run" /\ kind \in PulseKinds /\ pre.command = PulseCommand(kind)

\* C25 (as stated): a call of the pulse command of a Valve, Speaker, Screen
\* or TTL module emits the 'on' status event when its stage-1 write succeeds
\* and the 'off' status event when its stage-3 write succeeds.
C25_OnOffEvents ==
    PulseRun =>
        /\ OnWrite \in Entries(m.out) => OnEvent \in Entries(m.out)
        /\ OffWrite \in Entries(m.out) => OffEvent \in Entries(m.out)

\* C25 (amended): a call of the pulse command of a Valve, Speaker or Screen
\* module emits the 'on' status event exactly when its stage-1 write
\* succeeds and the 'off' status event exactly when its stage-3 write
\* succeeds, each right after the write; a call of SendPulse of a TTL module
\* emits no event with either write.
C25_OnOffEventsButTTL ==
    PulseRun =>
        /\ kind # "ttl" =>
               \A i \in 1..Len(m.out) :
                   /\ m.out[i] = OnWrite => (i < Len(m.out) /\ m.out[i + 1] = OnEvent)
                   /\ m.out[i] = OffWrite => (i < Len(m.out) /\ m.out[i + 1] = OffEvent)
                   /\ m.out[i] = OnEvent => (i > 1 /\ m.out[i - 1] = OnWrite)
                   /\ m.out[i] = OffEvent => (i > 1 /\ m.out[i - 1] = OffWrite)
        /\ (kind = "ttl" /\ Writes(m.out) # <<>>) => Events(m.out) = <<>>

\* The call that ends a speaker pulse after the stage-2 wait: the pin goes
\* LOW and Off is emitted.
C25_Witness ==
    /\ PulseRun
    /\ kind = "speaker"
    /\ pre.stage = 2
    /\ pre.delay_timer >= pre.p.pulse_duration
    /\ m.out = <<OffWrite, OffEvent>>
    /\ m.stage = 0

---------------------------------------------------------------------------
(* ValveModule: the tone pulse.                                            *)

\* The last call ran TonePulse of a valve.
ToneRun == last = "run" /\ kind = "valve" /\ pre.command = Valve_kTonePulse

\* C26: TonePulse aborts with TonePinNotSet exactly on a valve without a
\* tone pin (kTonePin = 255).  On a valve with a tone pin and the lock free
\* it drives the tone pin HIGH and emits ToneOn in stage 1, waits
\* tone_duration, then drives the tone pin LOW, emits ToneOff and completes;
\* it never changes the valve pin.
C26_TonePulse ==
    ToneRun =>
        /\ (<<"send", "kTonePinNotSet">> \in Entries(m.out)) <=> (cfg.kTonePin = NoTonePin)
        /\ m.halted => (cfg.kTonePin = NoTonePin \/ action_lock)
        /\ (cfg.kTonePin # NoTonePin /\ ~action_lock /\ pre.stage = 1) =>
               /\ SubSeq(m.out, 1, 2) = <<<<"write", "tone", HIGH>>, <<"send", "kToneOn">>>>
               /\ m.pins["tone"] = HIGH \/ m.stage = 0
        /\ (cfg.kTonePin # NoTonePin /\ ~action_lock /\ pre.stage = 2
              /\ pre.delay_timer >= pre.p.tone_duration) =>
               /\ m.out = <<<<"write", "tone", LOW>>, <<"send", "kToneOff">>>>
               /\ m.stage = 0
               /\ ~m.halted
        /\ m.pins["valve"] = pre.pins["valve"]

---------------------------------------------------------------------------
(* BreakModule: the levels of the toggle commands.                         *)

\* C27: for both polarities of the brake, ToggleOn drives the pin to the
\* level SetupModule writes when kStartEngaged is set, which is the duty
\* cycle SetBreakingPower writes for the breaking strength 255, and
\* ToggleOff drives it to the level SetupModule writes when kStartEngaged is
\* not set.
C27_ToggleLevels ==
    (last = "run" /\ kind = "break" /\ ~action_lock) =>
        /\ pre.command = Break_kToggleOn =>
               /\ m.pins["pin"] = MaxBraking(cfg)
               /\ m.pins["pin"] =
                      BreakingPowerValue(cfg, [pre EXCEPT !.p.breaking_strength = MaxDuty])
        /\ pre.command = Break_kToggleOff =>
               m.pins["pin"] = Duty(BreakSetupLevel([cfg EXCEPT !.kStartEngaged = FALSE]))

\* C28: a call of a pulse command performs the hardware action of at most
\* one stage: no call performs both the stage-1 'on' write and the stage-3
\* 'off' write (nor the stage-3 write and the stage-5 write of the tone pin),
\* whatever pulse_duration is, 0 included.
C28_OneStagePerCall ==
    PulseRun =>
        /\ ~(OnWrite \in Entries(m.out) /\ OffWrite \in Entries(m.out))
        /\ ~(OffWrite \in Entries(m.out) /\ <<"write", "tone", LOW>> \in Entries(m.out))

---------------------------------------------------------------------------
(* Lick and Torque: the filter state and the reports                       *)

\* C29: the filter state changes only with a report: a Lick or Torque
\* CheckState that emits no event leaves the stored previous sample and the
\* last-report-was-zero flag as they were, for every sample and every
\* filter state.
C29_FilterFrame ==
    (SensorChecked /\ kind \in {"lick", "torque"} /\ Events(m.out) = <<>>) =>
        /\ m.previous_readout = pre.previous_readout
        /\ m.previous_zero = pre.previous_zero

---------------------------------------------------------------------------
(* Two modules served by one kernel: the reward valve and a TTL output.    *)

\* A duration no reading of the stage timer reaches.
NeverElapses == 2000000000

\* ValveModule<29, true, true, 9> reward_valve and
\* TTLModule<33, true, false> mesoscope_start_trigger of the ACTOR build.
RewardValveConfig ==
    [kNormallyClosed |-> TRUE, kStartClosed |-> TRUE, kTonePin |-> RewardTonePin]
PeerConfig == [kOutput |-> TRUE, kStartOn |-> FALSE]

PairValveParameters ==
    [pulse_duration : {Valve_DefaultPulseDuration, NeverElapses},
     calibration_delay : {Valve_DefaultCalibrationDelay},
     calibration_count : {Valve_DefaultCalibrationCount},
     tone_duration : {Valve_DefaultToneDuration}]

\* The commands of the valve in the pair.  Calibrate is left out: it is not
\* staged, and blocks in place until it is done.
PairValveCommands == ValveCommands \ {Valve_kCalibrate}

PairTTLParameters ==
    [pulse_duration : {TTL_DefaultPulseDuration, NeverElapses}, average_pool_size : {0}]

\* The readings of the stage timers: the TTL pulse has ended at the first
\* and the valve's has not, every bounded wait has ended at the second.
PairInstants == {TTL_DefaultPulseDuration, Valve_DefaultToneDuration}

InitPair == Init /\ kind = "valve" /\ cfg = RewardValveConfig

\* Kernel::Setup: SetupModule of every module, once, at boot.
PairSetup ==
    /\ ~ready
    /\ m' = SetupModule(kind, cfg, Quiet(m))
    /\ peer' = SetupModule("ttl", PeerConfig, Quiet(peer))
    /\ ready' = TRUE
    /\ turn' = 1
    /\ last' = "setup"
    /\ pre' = Quiet(m)
    /\ UNCHANGED <<kind, cfg, action_lock, ttl_lock, ret, input, log, hist, twin>>

\* The kernel activates a command received for one of the two modules,
\* which has none pending.
PairActivate ==
    /\ ready
    /\ \/ /\ m.stage = 0
          /\ \E code \in PairValveCommands : m' = Activated(m, code)
          /\ peer' = Quiet(peer)
       \/ /\ peer.stage = 0
          /\ \E code \in TTLCommands : peer' = Activated(peer, code)
          /\ m' = Quiet(m)
    /\ last' = "other"
    /\ pre' = m'
    /\ UNCHANGED <<kind, cfg, action_lock, ttl_lock, ready, ret, input, log, hist, twin, turn>>

\* A module after the kernel has served it: an aborted command is cleared
\* in the same cycle, and the stage timer of an idle module is not followed.
Served(mm) == IF mm.stage = 0 THEN [mm EXCEPT !.halted = FALSE, !.delay_timer = 0] ELSE mm

\* Kernel::RuntimeCycle serves the modules in turn: the module whose turn it
\* is runs its pending command once (RunActiveCommand returns, whether the
\* command waits or not), and the turn passes to the other module.
PairTick ==
    /\ ready
    /\ IF turn = 1
       THEN /\ m' = IF m.stage > 0
                    THEN Served(RunActiveCommand(kind, cfg, Quiet(m), 0).m)
                    ELSE Quiet(m)
            /\ pre' = Quiet(m)
            /\ peer' = Quiet(peer)
       ELSE /\ peer' = IF peer.stage > 0
                       THEN Served(RunActiveCommand("ttl", PeerConfig, Quiet(peer), FALSE).m)
                       ELSE Quiet(peer)
            /\ pre' = Quiet(peer)
            /\ m' = Quiet(m)
    /\ turn' = 3 - turn
    /\ last' = "run"
    /\ UNCHANGED <<kind, cfg, action_lock, ttl_lock, ready, ret, input, log, hist, twin>>

\* Time passes between two cycles: the stage timer of every pending
\* command is found at its next reading.
Readings(mm) == {t \in PairInstants : t > mm.delay_timer}
Later(mm) ==
    IF mm.stage > 0 /\ Readings(mm) # {}
    THEN [Quiet(mm) EXCEPT !.delay_timer = CHOOSE t \in Readings(mm) : \A u \in Readings(mm) : t <= u]
    ELSE Quiet(mm)

PairElapse ==
    /\ (m.stage > 0 /\ Readings(m) # {}) \/ (peer.stage > 0 /\ Readings(peer) # {})
    /\ m' = Later(m)
    /\ peer' = Later(peer)
    /\ last' = "other"
    /\ pre' = m'
    /\ UNCHANGED <<kind, cfg, action_lock, ttl_lock, ready, ret, input, log, hist, twin, turn>>

\* SetCustomParameters of one of the two modules.
PairSetParameters ==
    /\ ready
    /\ \/ /\ \E p \in PairValveParameters : p # m.p /\ m' = [Quiet(m) EXCEPT !.p = p]
          /\ peer' = Quiet(peer)
       \/ /\ \E p \in PairTTLParameters : p # peer.p /\ peer' = [Quiet(peer) EXCEPT !.p = p]
          /\ m' = Quiet(m)
    /\ last' = "other"
    /\ pre' = m'
    /\ UNCHANGED <<kind, cfg, action_lock, ttl_lock, ready, ret, input, log, hist, twin, turn>>

NextPair == PairSetup \/ PairActivate \/ PairTick \/ PairElapse \/ PairSetParameters

\* loop() calls RuntimeCycle for ever, and the clock runs.
SpecPair == InitPair /\ [][NextPair]_vars /\ WF_vars(PairTick) /\ WF_vars(PairElapse)

\* Whether a wait of the given duration (a U32) ends at some reading.
CanElapse(duration) == \E t \in PairInstants : U32Geq(U32(t), duration)

\* Every wait of the valve's commands, and of the TTL module's, can end.
ValveCanElapse ==
    /\ CanElapse(U32(m.p.pulse_duration))
    /\ CanElapse(U32(m.p.tone_duration))
    /\ CanElapse(ValveToneRemainder(m))
PeerCanElapse == CanElapse(U32(peer.p.pulse_duration))

\* C30: with the kernel serving two modules in turn, a pending command of
\* either module goes through its stages and completes whenever its own
\* waits can end, whatever the other module does: a module waiting in stage 2
\* of a pulse, even for a duration that never elapses, holds back its own
\* command only.
C30_Cooperative ==
    /\ (peer.stage > 0 /\ PeerCanElapse) ~> (peer.stage = 0 \/ ~PeerCanElapse)
    /\ (m.stage > 0 /\ ValveCanElapse) ~> (m.stage = 0 \/ ~ValveCanElapse)

\* The TTL module ends its pulse and completes in a cycle in which the valve
\* is waiting in stage 2 for a duration that never elapses, its stage timer
\* at the last reading.
C30_Witness ==
    /\ last = "run" /\ turn = 1
    /\ pre.command = TTL_kSendPulse /\ pre.stage = 2
    /\ pre.p.pulse_duration = TTL_DefaultPulseDuration
    /\ peer.stage = 0 /\ ~peer.halted /\ <<"write", "pin", LOW>> \in Entries(peer.out)
    /\ m.command = Valve_kSendPulse /\ m.stage = 2
    /\ m.p.pulse_duration = NeverElapses
    /\ m.delay_timer = Valve_DefaultToneDuration

---------------------------------------------------------------------------
(* EncoderModule: the waits of GetPPR.                                     *)

\* The last call was a GetPPR call.
PPRStarted == kind = "encoder" /\ last = "run" /\ pre.command = Encoder_kGetPPR

\* C31: GetPPR, once started, always terminates, whatever the index pin
\* does: the call returns, having emitted the PPR event and completed the
\* command.
C31_PPRTerminates ==
    PPRStarted =>
        /\ ~Blocked(m)
        /\ Len(Events(m.out)) = 1 /\ Events(m.out)[1][2] = "kPPR"
        /\ m.stage = 0 /\ m.command = 0

\* C32: in a GetPPR call that returns, each of the 10 waits that follow a
\* delay ends on a new pulse of the index pin, and not because the pin
\* still reads HIGH: each accumulated count covers one full revolution.
C32_PPRNewEdge ==
    PPRMeasured =>
        \A i \in 1..PPRRotations : m.out[3 * i + 1] = <<"wait", "kPinX", "edge">>

---------------------------------------------------------------------------
(* ValveModule: Calibrate.                                                 *)

\* The last call ran Calibrate.
CalibrateRun == kind = "valve" /\ last = "run" /\ pre.command = Valve_kCalibrate

\* The writes of n open-then-close pairs.
CalibratePairs(n) ==
    [i \in 1..(2 * n) |->
        <<"write", "valve", IF i % 2 = 1 THEN Valve_kOpen(cfg) ELSE Valve_kClose(cfg)>>]

\* Calibrate ended within the call, as the lock let it.
CalibrateOutcome ==
    /\ m.stage = 0 /\ m.command = 0
    /\ ~LockEngaged =>
           /\ Tagged(m.out, "write") = CalibratePairs(pre.p.calibration_count)
           /\ Events(m.out) = <<<<"send", "kCalibrated">>>>
           /\ ~m.halted
    /\ Tagged(m.out, "rejected") # <<>> =>
           /\ Events(m.out) = <<<<"send", "kOutputLocked">>>>
           /\ m.halted

\* C33: Calibrate runs within one call: with the lock free it performs
\* exactly calibration_count open-then-close write pairs (none when the
\* count is 0), leaves the valve pin at the closed level, emits one
\* Calibrated event and no Open or Closed event, and completes; if a write
\* is rejected by the lock it emits one OutputLocked event and aborts, with
\* no Calibrated event.
C33_Calibrate ==
    CalibrateRun =>
        /\ CalibrateOutcome
        /\ ~LockEngaged => m.pins["valve"] = Valve_kClose(cfg)

\* C33, amended: as C33, the valve pin being left at the closed level when
\* calibration_count is above 0, and as it was when the count is 0.
C33_CalibrateButNone ==
    CalibrateRun =>
        /\ CalibrateOutcome
        /\ ~LockEngaged =>
               m.pins["valve"] = IF pre.p.calibration_count > 0 THEN Valve_kClose(cfg)
                                 ELSE pre.pins["valve"]

\* A calibration of one pulse closes a valve that was open.
C33_Witness ==
    /\ CalibrateRun /\ ~LockEngaged
    /\ pre.pins["valve"] = Valve_kOpen(cfg)
    /\ pre.p.calibration_count = 1
    /\ m.pins["valve"] = Valve_kClose(cfg)
    /\ Len(Tagged(m.out, "write")) = 2

---------------------------------------------------------------------------
(* ValveModule: a tone shorter than the pulse.                             *)

\* 2^32 - d as a U32, for d in 1..2^31.
U32Neg(d) == <<(Limb - 1) - ((d - 1) \div Limb), (Limb - 1) - ((d - 1) % Limb)>>

\* The last call ran SendPulse of a valve with a tone pin, the tone duration
\* being shorter than the pulse duration.
ShortToneRun ==
    /\ kind = "valve" /\ last = "run" /\ pre.command = Valve_kSendPulse
    /\ cfg.kTonePin # NoTonePin
    /\ pre.p.tone_duration < pre.p.pulse_duration

\* C34: in a tone-coupled pulse with tone_duration < pulse_duration the wait
\* of stage 4 lasts (tone_duration - pulse_duration) modulo 2^32, that is
\* 2^32 - (pulse_duration - tone_duration) microseconds: the call that
\* closes the valve leaves the tone pin HIGH, and so does every call of
\* stage 4 until the stage timer reaches that duration.
C34_ToneUnderflow ==
    ShortToneRun =>
        LET wait == U32Neg(pre.p.pulse_duration - pre.p.tone_duration)
        IN  /\ ValveToneRemainder(pre) = wait
            /\ OffWrite \in Entries(m.out) =>
                   /\ m.stage = 4 /\ m.delay_timer = 0
                   /\ m.pins["tone"] = HIGH
                   /\ <<"send", "kToneOff">> \notin Entries(m.out)
            /\ pre.stage = 4 =>
                   IF U32Geq(U32(pre.delay_timer), wait)
                   THEN m.stage = 0 /\ m.pins["tone"] = LOW
                   ELSE m = pre /\ m.pins["tone"] = HIGH

\* The valve has been closed for the whole default tone duration and the
\* tone of a pulse with tone_duration 0 is still on.
C34_Witness ==
    /\ ShortToneRun
    /\ pre.stage = 4 /\ pre.delay_timer = Valve_DefaultToneDuration
    /\ pre.p.tone_duration = 0
    /\ m.stage = 4 /\ m.pins["tone"] = HIGH /\ m.pins["valve"] = Valve_kClose(cfg)

---------------------------------------------------------------------------
(* EncoderModule: no pulse is dropped or duplicated.                       *)

\* C35: with both directions reportable in every check since SetupModule,
\* the signed sum of the reported magnitudes (CCW positive, CW negative)
\* plus the accumulator equals the signed sum of the motions the checks
\* read: no pulse is dropped and none is reported twice.
C35_Conservation ==
    (kind = "encoder" /\ hist.both) => hist.lost = 0

\* A check reports more than it read: the motion of earlier checks, kept in
\* the accumulator, is reported with it.
C35_Witness ==
    /\ EncoderChecked /\ hist.both
    /\ pre.overflow # 0
    /\ Events(m.out) # <<>>
    /\ Events(m.out)[1][3] > Abs(input)
    /\ m.overflow = 0

---------------------------------------------------------------------------
(* EncoderModule: the directions that are not reported.                    *)

\* C36: whatever checks and parameter updates came before, a check run
\* while report_CW is false emits no RotatedCW event, and a check run while
\* report_CCW is false emits no RotatedCCW event.
C36_DisabledDirectionSilent ==
    EncoderChecked =>
        \A i \in 1..Len(Events(m.out)) :
            /\ Events(m.out)[i][2] = "kRotatedCW" => pre.p.report_CW
            /\ Events(m.out)[i][2] = "kRotatedCCW" => pre.p.report_CCW

---------------------------------------------------------------------------
(* LickModule: the zero events of SetupModule and of the checks.           *)

\* The last call was a Lick check that emitted a zero-valued Changed event.
LickZeroCheck ==
    /\ kind = "lick" /\ last = "run" /\ pre.command = Lick_kCheckState
    /\ Events(m.out) = <<<<"send", "kChanged", 0>>>>

\* C37: in the event stream of a Lick module, through any sequence of
\* SetupModule and CheckState calls, the zero-valued Changed event of a check
\* never comes directly after another zero-valued Changed event, such as the
\* one SetupModule sends.
C37_NoAdjacentZeros ==
    LickZeroCheck => hist.priorEv # "zero"

---------------------------------------------------------------------------
(* ValveModule: the pins when a pulse has ended.                           *)

\* C38: when a SendPulse command of the valve has ended, completed or
\* aborted, whatever the output lock did meanwhile, the valve pin is at the
\* closed level and the tone pin, if there is one, is LOW.
C38_PulseEndsClosed ==
    (kind = "valve" /\ last = "run" /\ pre.command = Valve_kSendPulse /\ m.stage = 0) =>
        /\ m.pins["valve"] = Valve_kClose(cfg)
        /\ cfg.kTonePin # NoTonePin => m.pins["tone"] = LOW

---------------------------------------------------------------------------
(* ScreenModule: the three screens move together.                          *)

ScreenTick == kind = "screen" /\ last \in {"setup", "run"}

\* C39: after SetupModule and after every call of Toggle of the screen
\* module, whether the stage advanced, waited, completed or aborted, the
\* left, center and right pins are at one level (the locks do not change
\* inside a call).
C39_ScreensTogether ==
    ScreenTick => (m.pins["left"] = m.pins["center"] /\ m.pins["center"] = m.pins["right"])

\* A Toggle aborted at its third stage, the lock engaged during the wait:
\* the three screens are left on.
C39_Witness ==
    /\ ScreenTick
    /\ last = "run" /\ pre.command = Screen_kToggle /\ pre.stage = 2
    /\ m.halted
    /\ \A x \in {"left", "center", "right"} : m.pins[x] = Screen_kOn(cfg)

---------------------------------------------------------------------------
(* The pulse commands with the locks free and the clock running.           *)

\* The last reading of the 32-bit stage timer, 2^32 - 1, as a 32-bit
\* integer: no duration is longer.
LastReading == 0 - 1

\* The readings at which a cycle may find the stage timer of a pulse: the
\* instants at which a wait of the default durations can end, then the last
\* reading of the timer.
PulseInstants(k) == Instants(k) \cup {LastReading}

\* t is a later reading of the timer than u, both as unsigned values.
LaterReading(t, u) == t # u /\ U32Geq(U32(t), U32(u))

InitPulse == Init /\ kind \in PulseKinds

\* The kernel activates the pulse command of the module.
PulseActivate ==
    /\ ready
    /\ m.stage = 0
    /\ ~m.halted
    /\ m' = Activated(m, PulseCommand(kind))
    /\ twin' = Activated(twin, PulseCommand(kind))
    /\ log' = <<<<"activate", PulseCommand(kind)>>>>
    /\ ret' = TRUE
    /\ last' = "other"
    /\ pre' = m'
    /\ input' = 0
    /\ hist' = [hist EXCEPT !.held = 0, !.toneTime = 0, !.fixed = TRUE]
    /\ UNCHANGED <<peer, turn, kind, cfg, action_lock, ttl_lock, ready>>

\* Time passes between two cycles while a pulse is pending.
PulseElapse ==
    /\ m.stage > 0
    /\ \E t \in PulseInstants(kind) :
           /\ LaterReading(t, m.delay_timer)
           /\ m' = Elapsed(m, t)
           /\ twin' = Elapsed(twin, t)
    /\ ret' = TRUE
    /\ last' = "other"
    /\ pre' = m'
    /\ input' = 0
    /\ UNCHANGED <<peer, turn, kind, cfg, action_lock, ttl_lock, ready, log, hist>>

NextPulse == Setup \/ PulseActivate \/ Run \/ PulseElapse \/ SetCustomParameters \/ Clear

\* The locks are never engaged, the kernel runs the pending command in every
\* cycle of loop(), and the clock runs.
SpecPulse == InitPulse /\ [][NextPulse]_vars /\ WF_vars(Run) /\ WF_vars(PulseElapse)

\* The pins of the module are at the off level.
PinsOff ==
    CASE kind = "valve" ->
             /\ m.pins["valve"] = Valve_kClose(cfg)
             /\ cfg.kTonePin # NoTonePin => m.pins["tone"] = LOW
      [] kind = "screen" ->
             \A x \in {"left", "center", "right"} : m.pins[x] = Screen_kOff(cfg)
      [] OTHER -> m.pins["pin"] = LOW

\* The last call ended the pulse command, and ended it by completion: the
\* off write was made, the pins are off and the module is not halted.
PulseEnded == PulseRun /\ m.stage = 0
PulseCompleted ==
    /\ PulseEnded
    /\ ~m.halted /\ m.command = 0 /\ ret
    /\ OffWrite \in Entries(log)
    /\ PinsOff

\* A pulse command is pending.
PulsePending == ready /\ m.stage > 0 /\ m.command = PulseCommand(kind)

\* The TTL module is wired as an input: SendPulse is not among its commands.
InputRole == kind = "ttl" /\ ~cfg.kOutput

=============================================================================
